---- MODULE Spec2Model ----
(***************************************************************************)
(* Model of the terminal time tracker: the durable task store              *)
(* (taskManager.js over storage.js), the tracking state machine            *)
(* (timeTracker.js), the goal registry with progress and streaks           *)
(* (goals.js) and the period reports and task summary (analytics.js).      *)
(*                                                                         *)
(* Timestamps are integer milliseconds.  A JavaScript value that may be    *)
(* null is modelled as a sequence: <<>> is null and <<v>> is the value v,  *)
(* so an ISO date string written by toISOString is <<ms>> and reading it   *)
(* back with new Date(s).getTime() takes the element out again.            *)
(***************************************************************************)
EXTENDS Integers, Sequences, FiniteSets, TLC

\* ---------------------------------------------------------------- bounds
\* Last clock value of the tracking specification and of the specification
\* of every operation.
MaxTime == 2
MaxTimeAll == 1
MaxSessions == 2

\* Largest goal and longest session list of the goal-progress specification.
MaxGoal == 8
MaxProgressSessions == 2
\* Most sessions in the store the period reports are read from.
MaxReportSessions == 3
\* The days before today on which the store read by getGoalStreak may hold
\* a session.
MaxStreakDays == 3

\* ---------------------------------------------------------------- inputs
\* Task names offered to the operations: two valid names, the empty
\* string, a blank string and a name holding a character outside the
\* pattern.
NameInputs == {"a", "b", "", " ", "a b"}

\* Task ids offered to create, delete and start: a plain name and the name
\* of a property every object inherits.
TaskIdInputs == {"a", "constructor"}

\* Names offered to the task store on its own: a plain name, two names that
\* are array indices, a name using every class of the pattern, an inherited
\* property name, the empty string and a name with a character outside the
\* pattern.
StoreNames == {"b", "1", "2", "A_z-9", "constructor", "", "a.b"}

\* The characters of each offered name.
NameChars ==
  ("a" :> <<"a">>) @@ ("b" :> <<"b">>) @@ ("" :> <<>>) @@
  (" " :> <<" ">>) @@ ("a b" :> <<"a", " ", "b">>) @@
  ("1" :> <<"1">>) @@ ("2" :> <<"2">>) @@
  ("A_z-9" :> <<"A", "_", "z", "-", "9">>) @@
  ("a.b" :> <<"a", ".", "b">>) @@
  ("constructor" :> <<"c", "o", "n", "s", "t", "r", "u", "c", "t", "o", "r">>)

\* Characters accepted by /^[a-zA-Z0-9_-]+$/.
PatternChars ==
  {"a", "b", "c", "d", "e", "f", "g", "h", "i", "j", "k", "l", "m",
   "n", "o", "p", "q", "r", "s", "t", "u", "v", "w", "x", "y", "z"} \cup
  {"A", "B", "C", "D", "E", "F", "G", "H", "I", "J", "K", "L", "M",
   "N", "O", "P", "Q", "R", "S", "T", "U", "V", "W", "X", "Y", "Z"} \cup
  {"0", "1", "2", "3", "4", "5", "6", "7", "8", "9"} \cup {"_", "-"}

\* The offered names that are array indices (canonical numeric strings),
\* with their numeric value: an object enumerates these keys first, in
\* ascending numeric order, whatever the order they were added in.
ArrayIndex == ("1" :> 1) @@ ("2" :> 2)

\* Task ids, periods and durations offered to the goal operations: a
\* recognised period and an unrecognised one, a positive duration and zero.
GoalTaskInputs == {"a"}
PeriodInputs == {"daily", "hourly"}
DurationInputs == {0, 2}

\* Task ids, periods and durations offered to the goal registry on its own:
\* two plain names and an inherited property name; two recognised periods,
\* an unrecognised one and an inherited property name; a negative duration,
\* zero and two positive ones.
GoalNames == {"a", "b", "constructor"}
GoalPeriods == {"daily", "weekly", "hourly", "constructor"}
GoalDurations == {-1, 0, 2, 3}

\* The goal-progress specification counts the clock in hours from
\* 1 January 1970 00:00, a Thursday. Session starts offered: the first and
\* the last hour of that day, the first hour of the next day, of the next
\* week (Monday 5 January), of the next month and of the next year.
\* Target dates offered: noon of the first day, the fifth hour of Monday
\* 5 January and the first hour of 1971.
ProgressStarts == {0, 23, 24, 96, 744, 8760}
ProgressDurations == {1, 2, 3}
TargetDates == {12, 100, 8760}

\* ---------------------------------------------------------------- values
\* The sessions the period reports are read over, as <<start, duration>> in
\* hours since 1 January 1970 (a Thursday), and the reference dates:
\*    600  Mon 26 Jan 00h   first hour of the week 26 Jan - 1 Feb
\*    658  Wed 28 Jan 10h
\*    706  Fri 30 Jan 10h
\*    743  Sat 31 Jan 23h   last hour of January, ends in February
\*    744  Sun  1 Feb 00h   first hour of February
\*    767  Sun  1 Feb 23h   last hour of the week, ends in the next week
\*    768  Mon  2 Feb 00h   first hour of the next week
\*   1415  Sat 28 Feb 23h   last hour of February
\*   8759  Thu 31 Dec 23h   last hour of the year, ends in the next year
\*   8760  Fri  1 Jan 1971
ReportSessions ==
  {<<600, 2>>, <<658, 3>>, <<706, 1>>, <<743, 3>>, <<744, 1>>, <<767, 2>>,
   <<768, 1>>, <<1415, 1>>, <<8759, 2>>, <<8760, 1>>}
ReportTasks == {"a", "b"}
\* Wed 28 Jan 12h and Sun 1 Feb 12h.
ReportDates == {660, 756}
ReportKinds == {"daily", "weekly", "monthly", "yearly"}

\* Streaks: the goal of every period, the duration of the session of a day
\* (0: no session), and the hour of the day at which sessions start and the
\* streak is read.
StreakGoal == 2
StreakDurations == {0, 1, 2}
StreakHour == 12

NULL == <<>>
Some(v) == <<v>>
Truthy(v) == v # NULL

toISOString(ms) == <<ms>>
getTime(iso) == iso[1]

VALID_PERIODS == {"daily", "weekly", "monthly", "yearly"}

\* The properties a plain object inherits from Object.prototype, among the
\* offered names; tasks.json is parsed into such an object.
ObjectPrototypeKeys == {"constructor"}

\* A function value, such as the one obj["constructor"] evaluates to.
ObjectFunction == [function |-> "Object"]
IsFunction(v) == "function" \in DOMAIN v

\* obj[key]: the own property, else an inherited one, else undefined.
Get(obj, key) ==
  IF ~IsFunction(obj) /\ key \in DOMAIN obj THEN Some(obj[key])
  ELSE IF key \in ObjectPrototypeKeys THEN Some(ObjectFunction)
  ELSE NULL

\* JSON.parse(JSON.stringify(obj)): properties holding a function are left
\* out of the text.
stringify(obj) == [k \in {j \in DOMAIN obj : ~IsFunction(obj[j])} |-> obj[k]]

VARIABLES
  now,        \* the wall clock (new Date())
  tasks,      \* tasks.json: task id -> task record
  taskKeys,   \* the keys of tasks.json in the order they were added
  tracking,   \* tracking.json: the tracking record
  op,         \* the operation that ran last, with its arguments and, for a
              \* tracking operation, the state it found the record in
  result,     \* what that operation returned
  hist        \* history of the tracking session: when start was called and
              \* the sum of the pause intervals completed since

vars == <<now, tasks, taskKeys, tracking, op, result, hist>>

\* ---------------------------------------------------------------- storage
IdleTracking ==
  [currentTask |-> NULL, startTime |-> NULL, pausedTime |-> NULL,
   isPaused |-> FALSE, sessions |-> <<>>]

\* The content of a file that JSON.parse rejects with a SyntaxError.
Corrupt == [corrupt |-> TRUE]
IsCorrupt(data) == "corrupt" \in DOMAIN data

\* loadTasks that hands on what it read.
loadTasks_NoRecovery == tasks

\* The parsed file, or the empty task map when it cannot be parsed.
loadTasks == IF IsCorrupt(tasks) THEN <<>> ELSE tasks
saveTasks(obj) == stringify(obj)
\* The parsed file, or the Idle record when it cannot be parsed.
loadTracking == IF IsCorrupt(tracking) THEN IdleTracking ELSE tracking

\* ---------------------------------------------------------------- helpers
RECURSIVE SumDurations(_)
SumDurations(ss) ==
  IF ss = <<>> THEN 0
  ELSE ss[1].duration + SumDurations(Tail(ss))

RECURSIVE SumOver(_, _)
SumOver(f, S) ==
  IF S = {} THEN 0
  ELSE LET x == CHOOSE y \in S : TRUE IN f[x] + SumOver(f, S \ {x})

TotalSessions ==
  SumOver([t \in DOMAIN loadTasks |-> Len(loadTasks[t].sessions)], DOMAIN loadTasks)

\* ---------------------------------------------------------------- task store
IsBlank(name) == \A i \in 1..Len(NameChars[name]) : NameChars[name][i] = " "

isValidTaskName(name) ==
  /\ name # ""
  /\ Len(NameChars[name]) > 0
  /\ \A i \in 1..Len(NameChars[name]) : NameChars[name][i] \in PatternChars

getTask(taskId) == Get(loadTasks, taskId)

NewTask(taskName) ==
  [id |-> taskName, name |-> taskName, created |-> toISOString(now),
   totalTime |-> 0, sessions |-> <<>>, goals |-> NULL]

\* createTask without the check for a task of that name.
createTask_NoExistsCheck(taskName) ==
  /\ op' = [name |-> "createTask", taskId |-> taskName]
  /\ IF taskName = "" \/ IsBlank(taskName)
     THEN /\ result' = [success |-> FALSE, error |-> <<"Empty", Some(taskName)>>]
          /\ UNCHANGED <<tasks, taskKeys>>
     ELSE IF ~isValidTaskName(taskName)
     THEN /\ result' = [success |-> FALSE, error |-> <<"InvalidName", Some(taskName)>>]
          /\ UNCHANGED <<tasks, taskKeys>>
     ELSE /\ tasks' = saveTasks((taskName :> NewTask(taskName)) @@ loadTasks)
          /\ taskKeys' = IF taskName \in DOMAIN loadTasks THEN taskKeys
                         ELSE Append(taskKeys, taskName)
          /\ result' = [success |-> TRUE, task |-> NewTask(taskName)]
  /\ UNCHANGED <<now, tracking, hist>>

createTask(taskName) ==
  /\ op' = [name |-> "createTask", taskId |-> taskName]
  /\ IF taskName = "" \/ IsBlank(taskName)
     THEN /\ result' = [success |-> FALSE, error |-> <<"Empty", Some(taskName)>>]
          /\ UNCHANGED <<tasks, taskKeys>>
     ELSE IF ~isValidTaskName(taskName)
     THEN /\ result' = [success |-> FALSE, error |-> <<"InvalidName", Some(taskName)>>]
          /\ UNCHANGED <<tasks, taskKeys>>
     ELSE IF Truthy(Get(loadTasks, taskName))
     THEN /\ result' = [success |-> FALSE, error |-> <<"Exists", Some(taskName)>>]
          /\ UNCHANGED <<tasks, taskKeys>>
     ELSE /\ tasks' = saveTasks((taskName :> NewTask(taskName)) @@ loadTasks)
          /\ taskKeys' = Append(taskKeys, taskName)
          /\ result' = [success |-> TRUE, task |-> NewTask(taskName)]
  /\ UNCHANGED <<now, tracking, hist>>

\* deleteTask that drops the sessions of a task with goals but keeps its
\* record for the goals.
deleteTask_KeepsGoals(taskId) ==
  /\ op' = [name |-> "deleteTask", taskId |-> taskId]
  /\ IF ~Truthy(Get(loadTasks, taskId))
     THEN /\ result' = [success |-> FALSE, error |-> <<"NotExist", Some(taskId)>>]
          /\ UNCHANGED <<tasks, taskKeys>>
     ELSE IF taskId \in DOMAIN loadTasks /\ Truthy(loadTasks[taskId].goals)
     THEN /\ tasks' = saveTasks([loadTasks EXCEPT ![taskId].sessions = <<>>,
                                                  ![taskId].totalTime = 0])
          /\ taskKeys' = taskKeys
          /\ result' = [success |-> TRUE, message |-> <<"Deleted", taskId>>]
     ELSE /\ tasks' = saveTasks([t \in DOMAIN loadTasks \ {taskId} |-> loadTasks[t]])
          /\ taskKeys' = SelectSeq(taskKeys, LAMBDA k : k # taskId)
          /\ result' = [success |-> TRUE, message |-> <<"Deleted", taskId>>]
  /\ UNCHANGED <<now, tracking, hist>>

deleteTask(taskId) ==
  /\ op' = [name |-> "deleteTask", taskId |-> taskId]
  /\ IF ~Truthy(Get(loadTasks, taskId))
     THEN /\ result' = [success |-> FALSE, error |-> <<"NotExist", Some(taskId)>>]
          /\ UNCHANGED <<tasks, taskKeys>>
     ELSE /\ tasks' = saveTasks([t \in DOMAIN loadTasks \ {taskId} |-> loadTasks[t]])
          /\ taskKeys' = SelectSeq(taskKeys, LAMBDA k : k # taskId)
          /\ result' = [success |-> TRUE, message |-> <<"Deleted", taskId>>]
  /\ UNCHANGED <<now, tracking, hist>>

\* The array indices of the set S of keys, in ascending numeric order.
RECURSIVE Ascending(_)
Ascending(S) ==
  IF S = {} THEN <<>>
  ELSE LET m == CHOOSE x \in S : \A y \in S : ArrayIndex[x] <= ArrayIndex[y]
       IN <<m>> \o Ascending(S \ {m})

\* Object.keys of an object whose keys were added in the order keys: the
\* array indices in ascending order, then the other keys in the order they
\* were added.
OwnPropertyKeys(keys) ==
  Ascending({keys[i] : i \in 1..Len(keys)} \cap DOMAIN ArrayIndex)
    \o SelectSeq(keys, LAMBDA k : k \notin DOMAIN ArrayIndex)

\* Object.values(tasks)
ObjectValues == [i \in 1..Len(taskKeys) |-> loadTasks[OwnPropertyKeys(taskKeys)[i]]]

\* The sorted array arr with x put behind the elements that do not compare
\* greater than x: one step of a stable sort by creation date.
InsertByCreated(arr, x) ==
  LET k == Cardinality({i \in 1..Len(arr) :
                          getTime(arr[i].created) - getTime(x.created) <= 0})
  IN SubSeq(arr, 1, k) \o <<x>> \o SubSeq(arr, k + 1, Len(arr))

\* taskArray.sort((a, b) => new Date(a.created) - new Date(b.created))
RECURSIVE SortByCreated(_)
SortByCreated(arr) ==
  IF arr = <<>> THEN <<>>
  ELSE InsertByCreated(SortByCreated(SubSeq(arr, 1, Len(arr) - 1)), arr[Len(arr)])

\* listTasks without the sort.
listTasks_Unsorted == ObjectValues

\* What listTasks returns in the current state.
listTasks == SortByCreated(ObjectValues)

\* ---------------------------------------------------------------- tracking
\* The three states of the tracking record tr.
IsIdle(tr) == ~Truthy(tr.currentTask)
IsActive(tr) == Truthy(tr.currentTask) /\ ~tr.isPaused
IsPaused(tr) == Truthy(tr.currentTask) /\ tr.isPaused
StateOf(tr) == IF IsIdle(tr) THEN "Idle" ELSE IF tr.isPaused THEN "Paused" ELSE "Active"

\* The record startTracking saves.
\* The tracking record of a start with the epoch as start timestamp.
newTracking_StartAtEpoch(taskId, startTime, tr) ==
  [currentTask |-> Some(taskId),
   startTime |-> toISOString(0),
   pausedTime |-> NULL,
   isPaused |-> FALSE,
   sessions |-> tr.sessions]

newTracking(taskId, startTime, tr) ==
  [currentTask |-> Some(taskId),
   startTime |-> toISOString(startTime),
   pausedTime |-> NULL,
   isPaused |-> FALSE,
   sessions |-> tr.sessions]

startTracking(taskId) ==
  /\ TotalSessions < MaxSessions
  /\ op' = [name |-> "startTracking", taskId |-> taskId, from |-> StateOf(loadTracking)]
  /\ IF ~Truthy(getTask(taskId))
     THEN /\ result' = [success |-> FALSE, error |-> <<"NotExist", Some(taskId)>>]
          /\ UNCHANGED <<tracking, hist>>
     ELSE IF Truthy(loadTracking.currentTask)
     THEN /\ result' = [success |-> FALSE,
                        error |-> <<"AlreadyTracking", loadTracking.currentTask>>]
          /\ UNCHANGED <<tracking, hist>>
     ELSE /\ tracking' = newTracking(taskId, now, loadTracking)
          /\ result' = [success |-> TRUE, message |-> <<"Started", Some(taskId)>>,
                        startTime |-> now]
          /\ hist' = [start |-> now, paused |-> 0]
  /\ UNCHANGED <<now, tasks, taskKeys>>

\* StopDuration without the subtraction of the open pause interval.
StopDuration_IgnoresPause(tr, endTime) == endTime - getTime(tr.startTime)

\* Duration computed by stopTracking from the loaded tracking record.
StopDuration(tr, endTime) ==
  LET duration == endTime - getTime(tr.startTime) IN
  IF Truthy(tr.pausedTime)
  THEN duration - (endTime - getTime(tr.pausedTime))
  ELSE duration

\* PushSession without the update of totalTime.
PushSession_NoTotal(task, taskId, startTime, endTime, duration) ==
  LET sessions == IF "sessions" \in DOMAIN task THEN task.sessions ELSE <<>>
  IN [k \in DOMAIN task \cup {"sessions"} |->
        IF k = "sessions"
        THEN Append(sessions,
                    [task |-> taskId,
                     startTime |-> toISOString(startTime),
                     endTime |-> toISOString(endTime),
                     duration |-> duration])
        ELSE task[k]]

\* The object getTask returned after stopTracking has pushed the session
\* onto it (task.sessions || [], task.totalTime || 0).
PushSession(task, taskId, startTime, endTime, duration) ==
  LET sessions == IF "sessions" \in DOMAIN task THEN task.sessions ELSE <<>>
      totalTime == IF "totalTime" \in DOMAIN task THEN task.totalTime ELSE 0
  IN [k \in DOMAIN task \cup {"sessions", "totalTime"} |->
        IF k = "sessions"
        THEN Append(sessions,
                    [task |-> taskId,
                     startTime |-> toISOString(startTime),
                     endTime |-> toISOString(endTime),
                     duration |-> duration])
        ELSE IF k = "totalTime" THEN totalTime + duration
        ELSE task[k]]

\* clearedTracking with the start timestamp left in place.
clearedTracking_KeepsStart(tr) ==
  [currentTask |-> NULL, startTime |-> tr.startTime, pausedTime |-> NULL,
   isPaused |-> FALSE, sessions |-> tr.sessions]

\* The record stopTracking saves.
clearedTracking(tr) ==
  [currentTask |-> NULL, startTime |-> NULL, pausedTime |-> NULL,
   isPaused |-> FALSE, sessions |-> tr.sessions]

\* The start command of the command line with a task named: the task is
\* created when getTask does not find it, and then startTracking is
\* called. After the creation getTask finds the task, so startTracking
\* fails only when a task is being tracked.
startCommand(selectedTask) ==
  /\ TotalSessions < MaxSessions
  /\ op' = [name |-> "start command", taskId |-> selectedTask,
            from |-> StateOf(loadTracking)]
  /\ LET existingTask == getTask(selectedTask) IN
     IF ~Truthy(existingTask) /\ (selectedTask = "" \/ IsBlank(selectedTask))
     THEN /\ result' = [success |-> FALSE, error |-> <<"Empty", Some(selectedTask)>>]
          /\ UNCHANGED <<tasks, taskKeys, tracking, hist>>
     ELSE IF ~Truthy(existingTask) /\ ~isValidTaskName(selectedTask)
     THEN /\ result' = [success |-> FALSE, error |-> <<"InvalidName", Some(selectedTask)>>]
          /\ UNCHANGED <<tasks, taskKeys, tracking, hist>>
     ELSE /\ IF ~Truthy(existingTask)
             THEN /\ tasks' = saveTasks((selectedTask :> NewTask(selectedTask)) @@ loadTasks)
                  /\ taskKeys' = Append(taskKeys, selectedTask)
             ELSE UNCHANGED <<tasks, taskKeys>>
          /\ IF Truthy(loadTracking.currentTask)
             THEN /\ result' = [success |-> FALSE,
                                error |-> <<"AlreadyTracking", loadTracking.currentTask>>]
                  /\ UNCHANGED <<tracking, hist>>
             ELSE /\ tracking' = newTracking(selectedTask, now, loadTracking)
                  /\ result' = [success |-> TRUE,
                                message |-> <<"Started", Some(selectedTask)>>,
                                startTime |-> now]
                  /\ hist' = [start |-> now, paused |-> 0]
  /\ UNCHANGED now

\* stopTracking with a session that ends at the pause when the stop comes
\* in Paused.
stopTracking_EndAtPause ==
  /\ op' = [name |-> "stopTracking", from |-> StateOf(loadTracking)]
  /\ IF ~Truthy(loadTracking.currentTask)
     THEN /\ result' = [success |-> FALSE, error |-> <<"NoActiveSession", NULL>>]
          /\ UNCHANGED <<tasks, tracking>>
     ELSE LET tr == loadTracking
              endTime == IF Truthy(tr.pausedTime) THEN getTime(tr.pausedTime) ELSE now
              startTime == getTime(tr.startTime)
              duration == StopDuration(tr, endTime)
              taskId == tr.currentTask[1]
              task == getTask(taskId)
          IN /\ IF Truthy(task)
                THEN tasks' = saveTasks((taskId :> PushSession(task[1], taskId, startTime,
                                                               endTime, duration))
                                        @@ loadTasks)
                ELSE UNCHANGED tasks
             /\ tracking' = clearedTracking(tr)
             /\ result' = [success |-> TRUE,
                           message |-> <<"Stopped", tr.currentTask>>,
                           duration |-> duration,
                           session |-> [task |-> taskId, startTime |-> startTime,
                                        endTime |-> endTime, duration |-> duration]]
  /\ UNCHANGED <<now, taskKeys, hist>>

stopTracking ==
  /\ op' = [name |-> "stopTracking", from |-> StateOf(loadTracking)]
  /\ IF ~Truthy(loadTracking.currentTask)
     THEN /\ result' = [success |-> FALSE, error |-> <<"NoActiveSession", NULL>>]
          /\ UNCHANGED <<tasks, tracking>>
     ELSE LET tr == loadTracking
              endTime == now
              startTime == getTime(tr.startTime)
              duration == StopDuration(tr, endTime)
              taskId == tr.currentTask[1]
              task == getTask(taskId)
          IN /\ IF Truthy(task)
                THEN tasks' = saveTasks((taskId :> PushSession(task[1], taskId, startTime,
                                                               endTime, duration))
                                        @@ loadTasks)
                ELSE UNCHANGED tasks
             /\ tracking' = clearedTracking(tr)
             /\ result' = [success |-> TRUE,
                           message |-> <<"Stopped", tr.currentTask>>,
                           duration |-> duration,
                           session |-> [task |-> taskId, startTime |-> startTime,
                                        endTime |-> endTime, duration |-> duration]]
  /\ UNCHANGED <<now, taskKeys, hist>>

\* pausedTracking with the paused flag left as it was.
pausedTracking_FlagNotSet(tr, pauseTime) ==
  [tr EXCEPT !.pausedTime = toISOString(pauseTime)]

\* The record pauseTracking saves.
pausedTracking(tr, pauseTime) ==
  [tr EXCEPT !.pausedTime = toISOString(pauseTime), !.isPaused = TRUE]

\* A run of stopTracking that ends, the process being killed, after
\* saveTasks has written tasks.json and before saveTracking writes
\* tracking.json: the session is stored, the tracking record stays as it
\* was and nothing is returned.
stopTrackingInterrupted ==
  /\ TotalSessions < MaxSessions
  /\ Truthy(loadTracking.currentTask)
  /\ Truthy(getTask(loadTracking.currentTask[1]))
  /\ op' = [name |-> "stopTrackingInterrupted", from |-> StateOf(loadTracking)]
  /\ LET tr == loadTracking
         endTime == now
         startTime == getTime(tr.startTime)
         duration == StopDuration(tr, endTime)
         taskId == tr.currentTask[1]
         task == getTask(taskId)
     IN tasks' = saveTasks((taskId :> PushSession(task[1], taskId, startTime,
                                                  endTime, duration))
                           @@ loadTasks)
  /\ UNCHANGED <<now, taskKeys, tracking, result, hist>>

\* pauseTracking without the check for a pause already in force.
pauseTracking_NoPausedCheck ==
  /\ op' = [name |-> "pauseTracking", from |-> StateOf(loadTracking)]
  /\ IF ~Truthy(loadTracking.currentTask)
     THEN /\ result' = [success |-> FALSE, error |-> <<"NoActiveSessionToPause", NULL>>]
          /\ UNCHANGED tracking
     ELSE /\ tracking' = pausedTracking(loadTracking, now)
          /\ result' = [success |-> TRUE,
                        message |-> <<"Paused", loadTracking.currentTask>>]
  /\ UNCHANGED <<now, tasks, taskKeys, hist>>

pauseTracking ==
  /\ op' =[name |-> "pauseTracking", from |-> StateOf(loadTracking)]
  /\ IF ~Truthy(loadTracking.currentTask)
     THEN /\ result' = [success |-> FALSE, error |-> <<"NoActiveSessionToPause", NULL>>]
          /\ UNCHANGED tracking
     ELSE IF loadTracking.isPaused
     THEN /\ result' = [success |-> FALSE, error |-> <<"AlreadyPaused", NULL>>]
          /\ UNCHANGED tracking
     ELSE /\ tracking' = pausedTracking(loadTracking, now)
          /\ result' = [success |-> TRUE,
                        message |-> <<"Paused", loadTracking.currentTask>>]
  /\ UNCHANGED <<now, tasks, taskKeys, hist>>

\* adjustedStart with the start timestamp left where it was.
adjustedStart_NoShift(tr, resumeTime) == getTime(tr.startTime)

\* Start timestamp after resumeTracking has shifted it by the paused time.
adjustedStart(tr, resumeTime) ==
  LET pausedDuration == resumeTime - getTime(tr.pausedTime)
  IN getTime(tr.startTime) + pausedDuration

\* resumedTracking with the pause timestamp left in place.
resumedTracking_KeepsPausedTime(tr, resumeTime) ==
  [tr EXCEPT !.startTime = toISOString(adjustedStart(tr, resumeTime)),
             !.isPaused = FALSE]

\* The record resumeTracking saves.
resumedTracking(tr, resumeTime) ==
  [tr EXCEPT !.startTime = toISOString(adjustedStart(tr, resumeTime)),
             !.pausedTime = NULL,
             !.isPaused = FALSE]

resumeTracking ==
  /\ op' = [name |-> "resumeTracking", from |-> StateOf(loadTracking)]
  /\ IF ~Truthy(loadTracking.currentTask)
     THEN /\ result' = [success |-> FALSE, error |-> <<"NoActiveSession", NULL>>]
          /\ UNCHANGED <<tracking, hist>>
     ELSE IF ~loadTracking.isPaused
     THEN /\ result' = [success |-> FALSE, error |-> <<"NoPausedSession", NULL>>]
          /\ UNCHANGED <<tracking, hist>>
     ELSE /\ tracking' = resumedTracking(loadTracking, now)
          /\ result' = [success |-> TRUE,
                        message |-> <<"Resumed", loadTracking.currentTask>>]
          /\ hist' = [hist EXCEPT
                        !.paused = @ + (now - getTime(loadTracking.pausedTime))]
  /\ UNCHANGED <<now, tasks, taskKeys>>

Max(a, b) == IF a >= b THEN a ELSE b

\* getStatus with the clock read in Paused as it is in Active.
getStatus_ClockInPause ==
  LET tr == loadTracking IN
  IF ~Truthy(tr.currentTask)
  THEN [isTracking |-> FALSE, currentTask |-> NULL, startTime |-> NULL,
        isPaused |-> FALSE, elapsedTime |-> 0]
  ELSE LET startTime == getTime(tr.startTime)
           currentTime == now
       IN [isTracking |-> TRUE, currentTask |-> tr.currentTask,
           startTime |-> Some(startTime), isPaused |-> tr.isPaused,
           elapsedTime |-> Max(0, currentTime - startTime)]

\* What getStatus returns in the current state.
getStatus ==
  LET tr == loadTracking IN
  IF ~Truthy(tr.currentTask)
  THEN [isTracking |-> FALSE, currentTask |-> NULL, startTime |-> NULL,
        isPaused |-> FALSE, elapsedTime |-> 0]
  ELSE LET startTime == getTime(tr.startTime)
           currentTime == now
           elapsedTime == IF tr.isPaused
                          THEN getTime(tr.pausedTime) - startTime
                          ELSE currentTime - startTime
       IN [isTracking |-> TRUE, currentTask |-> tr.currentTask,
           startTime |-> Some(startTime), isPaused |-> tr.isPaused,
           elapsedTime |-> Max(0, elapsedTime)]

\* ---------------------------------------------------------------- goals
isValidGoalPeriod(period) == period \in VALID_PERIODS

\* task id -> (period -> duration) for the tasks that carry a goals object.
loadGoals ==
  [t \in {u \in DOMAIN loadTasks : Truthy(loadTasks[u].goals)} |-> loadTasks[t].goals[1]]

\* saveGoals writing the records of the tasks with goals only.
saveGoals_OnlyTasksWithGoals(goals) ==
  [t \in DOMAIN loadTasks \cap DOMAIN goals |->
     [loadTasks[t] EXCEPT !.goals = Some(goals[t])]]

\* The task map written by saveGoals(goals).
saveGoals(goals) ==
  [t \in DOMAIN loadTasks |->
     [loadTasks[t] EXCEPT !.goals = IF t \in DOMAIN goals THEN Some(goals[t]) ELSE NULL]]

setGoal(taskId, period, duration) ==
  /\ op' = [name |-> "setGoal", taskId |-> taskId, period |-> period,
            duration |-> duration]
  /\ IF ~isValidGoalPeriod(period)
     THEN /\ result' = [success |-> FALSE, error |-> <<"InvalidPeriod", NULL>>]
          /\ UNCHANGED tasks
     ELSE IF duration <= 0
     THEN /\ result' = [success |-> FALSE, error |-> <<"NotPositive", NULL>>]
          /\ UNCHANGED tasks
     ELSE IF ~Truthy(getTask(taskId))
     THEN /\ result' = [success |-> FALSE, error |-> <<"NotExist", Some(taskId)>>]
          /\ UNCHANGED tasks
     ELSE LET goals == loadGoals
              found == Get(goals, taskId)
              mine == IF Truthy(found) THEN found[1] ELSE <<>>
              isUpdate == Truthy(Get(mine, period))
              \* an assignment to a property of an inherited function does
              \* not add a key to goals
              updated == IF IsFunction(mine) THEN goals
                         ELSE (taskId :> ((period :> duration) @@ mine)) @@ goals
          IN /\ tasks' = saveGoals(updated)
             /\ result' = [success |-> TRUE,
                           message |-> <<IF isUpdate THEN "updated" ELSE "set",
                                         Some(taskId), period>>]
  /\ UNCHANGED <<now, taskKeys, tracking, hist>>

\* !obj[key] for an object of goal durations or an inherited function.
NoGoalAt(obj, key) ==
  IF ~IsFunction(obj) /\ key \in DOMAIN obj THEN obj[key] = 0
  ELSE ~Truthy(Get(obj, key))

\* The own properties of obj without key (delete obj[key]).
Delete(obj, key) ==
  IF IsFunction(obj) THEN obj ELSE [q \in DOMAIN obj \ {key} |-> obj[q]]

\* Object.keys(obj).length === 0
HasNoKeys(obj) == IsFunction(obj) \/ DOMAIN obj = {}

\* removeGoal(taskId, period); period = NULL is the call without a period.
removeGoal(taskId, period) ==
  /\ op' = [name |-> "removeGoal", taskId |-> taskId, period |-> period]
  /\ LET goals == loadGoals
         found == Get(goals, taskId)
     IN
     IF Truthy(period)
     THEN IF ~Truthy(found) \/ NoGoalAt(found[1], period[1])
          THEN /\ result' = [success |-> FALSE,
                             error |-> <<"NoGoal", Some(taskId), period>>]
               /\ UNCHANGED tasks
          ELSE LET rest == Delete(found[1], period[1])
                   updated == IF HasNoKeys(rest)
                              THEN Delete(goals, taskId)
                              ELSE [goals EXCEPT ![taskId] = rest]
               IN /\ tasks' = saveGoals(updated)
                  /\ result' = [success |-> TRUE,
                                message |-> <<"removed", Some(taskId), period>>]
     ELSE IF ~Truthy(found)
          THEN /\ result' = [success |-> FALSE,
                             error |-> <<"NoGoals", Some(taskId), NULL>>]
               /\ UNCHANGED tasks
          ELSE /\ tasks' = saveGoals(Delete(goals, taskId))
               /\ result' = [success |-> TRUE,
                             message |-> <<"removedAll", Some(taskId), NULL>>]
  /\ UNCHANGED <<now, taskKeys, tracking, hist>>

\* goals[taskId] || {}
getTaskGoals(taskId) ==
  LET found == Get(loadGoals, taskId) IN IF Truthy(found) THEN found[1] ELSE <<>>

\* The task records getTasksWithGoals returns.
getTasksWithGoals == {loadTasks[t] : t \in DOMAIN loadGoals}

\* ---------------------------------------------------------------- periods
\* Clock units in a day.
DayLength == 24

\* Days since 1 January 1970 of the civil date y-m-d, and the civil date of
\* a day number (proleptic Gregorian calendar, local time without daylight
\* saving).
DaysFromCivil(y, m, d) ==
  LET yy == IF m <= 2 THEN y - 1 ELSE y
      era == yy \div 400
      yoe == yy - era * 400
      mp == IF m > 2 THEN m - 3 ELSE m + 9
      doy == (153 * mp + 2) \div 5 + d - 1
      doe == yoe * 365 + yoe \div 4 - yoe \div 100 + doy
  IN era * 146097 + doe - 719468

CivilFromDays(z) ==
  LET zz == z + 719468
      era == zz \div 146097
      doe == zz - era * 146097
      yoe == (doe - doe \div 1460 + doe \div 36524 - doe \div 146096) \div 365
      doy == doe - (365 * yoe + yoe \div 4 - yoe \div 100)
      mp == (5 * doy + 2) \div 153
      d == doy - (153 * mp + 2) \div 5 + 1
      m == IF mp < 10 THEN mp + 3 ELSE mp - 9
      y == yoe + era * 400 + (IF m <= 2 THEN 1 ELSE 0)
  IN [year |-> y, month |-> m, day |-> d]

dayOf(t) == t \div DayLength

\* The end of a period is its last instant, one clock unit before the next
\* period starts.
startOfDay(t) == dayOf(t) * DayLength
endOfDay(t) == startOfDay(t) + DayLength - 1

\* startOfWeek for a week that starts on Sunday.
startOfWeek_Sunday(t) == (dayOf(t) - ((dayOf(t) + 4) % 7)) * DayLength

\* weekStartsOn: 1, the week starts on Monday; day 0 is a Thursday.
startOfWeek(t) == (dayOf(t) - ((dayOf(t) + 3) % 7)) * DayLength
endOfWeek(t) == startOfWeek(t) + 7 * DayLength - 1

startOfMonth(t) ==
  LET c == CivilFromDays(dayOf(t)) IN DaysFromCivil(c.year, c.month, 1) * DayLength
endOfMonth(t) ==
  LET c == CivilFromDays(dayOf(t))
  IN (IF c.month = 12 THEN DaysFromCivil(c.year + 1, 1, 1)
      ELSE DaysFromCivil(c.year, c.month + 1, 1)) * DayLength - 1

startOfYear(t) ==
  LET c == CivilFromDays(dayOf(t)) IN DaysFromCivil(c.year, 1, 1) * DayLength
endOfYear(t) ==
  LET c == CivilFromDays(dayOf(t)) IN DaysFromCivil(c.year + 1, 1, 1) * DayLength - 1

\* The code throws for any other period; no caller here passes one.
getTimeRangeForPeriod(period, targetDate) ==
  CASE period = "daily" ->
         [start |-> startOfDay(targetDate), end |-> endOfDay(targetDate)]
    [] period = "weekly" ->
         [start |-> startOfWeek(targetDate), end |-> endOfWeek(targetDate)]
    [] period = "monthly" ->
         [start |-> startOfMonth(targetDate), end |-> endOfMonth(targetDate)]
    [] period = "yearly" ->
         [start |-> startOfYear(targetDate), end |-> endOfYear(targetDate)]

\* isWithinInterval with the end of the interval left out.
isWithinInterval_Exclusive(date, interval) == interval.start <= date /\ date < interval.end

isWithinInterval(date, interval) == interval.start <= date /\ date <= interval.end

getActualTimeForPeriod(taskId, period, targetDate) ==
  LET task == getTask(taskId) IN
  IF ~Truthy(task) \/ "sessions" \notin DOMAIN task[1] THEN 0
  ELSE LET range == getTimeRangeForPeriod(period, targetDate)
       IN SumDurations(SelectSeq(task[1].sessions,
                                 LAMBDA session :
                                   isWithinInterval(getTime(session.startTime), range)))

\* Percentage with the fraction cut off instead of rounded.
Percentage_Truncated(actualTime, goalTime) == (100 * actualTime) \div goalTime

\* Math.round((actualTime / goalTime) * 100): the nearest integer, a half
\* going up. The floating-point quotient and product round to the same
\* integer as the exact ones for the goals offered here (a half arises only
\* for a goal that is a multiple of 8, and 8 divides exactly).
Percentage(actualTime, goalTime) == (200 * actualTime + goalTime) \div (2 * goalTime)

\* The result of arithmetic on a value that is not a number.
NaN == [nan |-> TRUE]

\* getGoalProgress ends with the error of getTimeRangeForPeriod: the goal
\* looked up is truthy, the task has a sessions array and the period is not
\* one of the four.
InvalidPeriodThrown(taskId, period) ==
  /\ ~NoGoalAt(getTaskGoals(taskId), period)
  /\ Truthy(getTask(taskId))
  /\ "sessions" \in DOMAIN getTask(taskId)[1]
  /\ ~isValidGoalPeriod(period)

\* What getGoalProgress returns when it does not throw: null, or the
\* progress record. A goal that is an inherited function makes the
\* quotient and the difference NaN and both comparisons false.
getGoalProgress(taskId, period, targetDate) ==
  LET taskGoals == getTaskGoals(taskId) IN
  IF NoGoalAt(taskGoals, period) THEN NULL
  ELSE LET goalTime == Get(taskGoals, period)[1]
           actualTime == getActualTimeForPeriod(taskId, period, targetDate)
       IN IF IsFunction(taskGoals) \/ period \notin DOMAIN taskGoals
          THEN Some([period |-> period,
                     goalTime |-> goalTime,
                     actualTime |-> actualTime,
                     percentage |-> NaN,
                     isAchieved |-> FALSE,
                     remainingTime |-> NaN,
                     overTime |-> 0])
          ELSE Some([period |-> period,
                     goalTime |-> goalTime,
                     actualTime |-> actualTime,
                     percentage |-> Percentage(actualTime, goalTime),
                     isAchieved |-> actualTime >= goalTime,
                     remainingTime |-> Max(0, goalTime - actualTime),
                     overTime |-> IF actualTime > goalTime
                                  THEN actualTime - goalTime ELSE 0])

\* The periods getGoalStreak examines.
StreakPeriods == 30

\* new Date(year, monthIndex, day) for a month index counted from year 0: a
\* day past the end of the month runs over into the next month.
DateOf(monthsSinceYear0, day) ==
  (DaysFromCivil(monthsSinceYear0 \div 12, (monthsSinceYear0 % 12) + 1, 1) + day - 1)
    * DayLength

\* The date getGoalStreak checks in iteration i.
checkDate(period, today, i) ==
  LET c == CivilFromDays(dayOf(today)) IN
  CASE period = "daily" -> today - i * DayLength
    [] period = "weekly" -> today - i * 7 * DayLength
    [] period = "monthly" -> DateOf(c.year * 12 + c.month - 1 - i, c.day)
    [] period = "yearly" -> DateOf((c.year - i) * 12 + c.month - 1, c.day)
    [] OTHER -> today - i * DayLength

\* The iterations i, i + 1, ... of the loop of getGoalStreak, entered with
\* the counters acc.
RECURSIVE StreakLoop(_, _, _, _, _)
StreakLoop(taskId, period, goalTime, i, acc) ==
  IF i >= StreakPeriods THEN acc
  ELSE LET actualTime == getActualTimeForPeriod(taskId, period, checkDate(period, now, i))
           achieved == actualTime >= goalTime
       IN StreakLoop(taskId, period, goalTime, i + 1,
                     IF achieved
                     THEN [currentStreak |-> IF i = 0 THEN acc.tempStreak + 1
                                             ELSE acc.currentStreak,
                           longestStreak |-> Max(acc.longestStreak, acc.tempStreak + 1),
                           totalAchieved |-> acc.totalAchieved + 1,
                           tempStreak |-> acc.tempStreak + 1]
                     ELSE [currentStreak |-> IF i = 0 THEN 0 ELSE acc.currentStreak,
                           longestStreak |-> acc.longestStreak,
                           totalAchieved |-> acc.totalAchieved,
                           tempStreak |-> 0])

\* What getGoalStreak returns when it does not throw. A goal that is an
\* inherited function compares false with every actual time.
getGoalStreak(taskId, period) ==
  LET taskGoals == getTaskGoals(taskId)
      zero == [currentStreak |-> 0, longestStreak |-> 0, totalAchieved |-> 0]
  IN IF NoGoalAt(taskGoals, period) THEN zero
     ELSE IF IsFunction(taskGoals) \/ period \notin DOMAIN taskGoals THEN zero
     ELSE LET acc == StreakLoop(taskId, period, taskGoals[period], 0,
                                [currentStreak |-> 0, longestStreak |-> 0,
                                 totalAchieved |-> 0, tempStreak |-> 0])
          IN [currentStreak |-> acc.currentStreak,
              longestStreak |-> acc.longestStreak,
              totalAchieved |-> acc.totalAchieved]

\* A call of getGoalStreak; it changes nothing in the store.
ReadGoalStreak(taskId, period) ==
  /\ op' = [name |-> "getGoalStreak", taskId |-> taskId, period |-> period]
  /\ result' = IF InvalidPeriodThrown(taskId, period)
               THEN [success |-> FALSE, error |-> <<"InvalidPeriodThrown", Some(period)>>]
               ELSE [success |-> TRUE, streak |-> getGoalStreak(taskId, period)]
  /\ UNCHANGED <<now, tasks, taskKeys, tracking, hist>>

\* A call of getGoalProgress; it changes nothing in the store.
ReadGoalProgress(taskId, period, targetDate) ==
  /\ op' = [name |-> "getGoalProgress", taskId |-> taskId, period |-> period,
            targetDate |-> targetDate]
  /\ result' = IF InvalidPeriodThrown(taskId, period)
               THEN [success |-> FALSE, error |-> <<"InvalidPeriodThrown", Some(period)>>]
               ELSE [success |-> TRUE,
                     progress |-> getGoalProgress(taskId, period, targetDate)]
  /\ UNCHANGED <<now, tasks, taskKeys, tracking, hist>>

\* ---------------------------------------------------------------- analytics
\* sessions.filter(session => isWithinInterval(new Date(session.startTime),
\* { start: startDate, end: endDate }))
\* filterSessionsByDateRange deciding by the end of the session.
filterSessionsByDateRange_ByEnd(sessions, startDate, endDate) ==
  SelectSeq(sessions,
            LAMBDA session :
              isWithinInterval(getTime(session.endTime),
                               [start |-> startDate, end |-> endDate]))

filterSessionsByDateRange(sessions, startDate, endDate) ==
  SelectSeq(sessions,
            LAMBDA session :
              isWithinInterval(getTime(session.startTime),
                               [start |-> startDate, end |-> endDate]))

\* The sessions of the task records in arr, one record after the other.
RECURSIVE Spread(_)
Spread(arr) ==
  IF arr = <<>> THEN <<>>
  ELSE (IF "sessions" \in DOMAIN arr[1] THEN arr[1].sessions ELSE <<>>)
         \o Spread(Tail(arr))

\* allSessions: the sessions of every task, in the order of Object.values.
allSessions == Spread(ObjectValues)

\* The task ids of sessions in the order they are met first: the order in
\* which groupSessionsByTask adds the keys of grouped.
RECURSIVE groupKeys(_)
groupKeys(sessions) ==
  IF sessions = <<>> THEN <<>>
  ELSE LET before == groupKeys(SubSeq(sessions, 1, Len(sessions) - 1))
           task == sessions[Len(sessions)].task
       IN IF \E i \in 1..Len(before) : before[i] = task THEN before
          ELSE Append(before, task)

\* grouped: task id -> group. No stored session carries a task id that
\* Object.prototype defines (no such task can be created, and stopTracking
\* stores nothing for one), so every key of grouped is an own key.
groupSessionsByTask(sessions) ==
  [task \in {sessions[i].task : i \in 1..Len(sessions)} |->
     LET mine == SelectSeq(sessions, LAMBDA session : session.task = task)
     IN [name |-> task, totalTime |-> SumDurations(mine), sessions |-> mine]]

\* Object.values(groupSessionsByTask(sessions))
groupValues(sessions) ==
  LET grouped == groupSessionsByTask(sessions)
      keys == OwnPropertyKeys(groupKeys(sessions))
  IN [i \in 1..Len(keys) |-> grouped[keys[i]]]

\* .reduce((sum, task) => sum + task.totalTime, 0)
RECURSIVE SumTotals(_)
SumTotals(arr) ==
  IF arr = <<>> THEN 0 ELSE arr[1].totalTime + SumTotals(Tail(arr))

\* InsertByTotal with x put in front of the elements of the same totalTime.
InsertByTotal_BeforeEqual(arr, x) ==
  LET k == Cardinality({i \in 1..Len(arr) : x.totalTime - arr[i].totalTime < 0})
  IN SubSeq(arr, 1, k) \o <<x>> \o SubSeq(arr, k + 1, Len(arr))

\* The sorted array arr with x put behind the elements that do not compare
\* greater than x: one step of a stable sort by descending totalTime.
InsertByTotal(arr, x) ==
  LET k == Cardinality({i \in 1..Len(arr) : x.totalTime - arr[i].totalTime <= 0})
  IN SubSeq(arr, 1, k) \o <<x>> \o SubSeq(arr, k + 1, Len(arr))

\* .sort((a, b) => b.totalTime - a.totalTime)
RECURSIVE SortByTotal(_)
SortByTotal(arr) ==
  IF arr = <<>> THEN <<>>
  ELSE InsertByTotal(SortByTotal(SubSeq(arr, 1, Len(arr) - 1)), arr[Len(arr)])

\* The start of every day, Monday-started week and month that overlaps the
\* interval from start to end.
eachDayOfInterval(start, end) ==
  [i \in 1..(dayOf(end) - dayOf(start) + 1) |-> (dayOf(start) + i - 1) * DayLength]

\* eachWeekOfInterval with only the weeks that start inside the interval.
eachWeekOfInterval_Inside(start, end) ==
  LET first == IF startOfWeek(start) = startOfDay(start) THEN startOfWeek(start)
               ELSE startOfWeek(start) + 7 * DayLength
  IN [i \in 1..((startOfWeek(end) - first) \div (7 * DayLength) + 1) |->
        first + (i - 1) * 7 * DayLength]

eachWeekOfInterval(start, end) ==
  [i \in 1..((startOfWeek(end) - startOfWeek(start)) \div (7 * DayLength) + 1) |->
     startOfWeek(start) + (i - 1) * 7 * DayLength]

eachMonthOfInterval(start, end) ==
  LET s == CivilFromDays(dayOf(start))
      e == CivilFromDays(dayOf(end))
      first == s.year * 12 + s.month - 1
      last == e.year * 12 + e.month - 1
  IN [i \in 1..(last - first + 1) |->
        DaysFromCivil((first + i - 1) \div 12, ((first + i - 1) % 12) + 1, 1) * DayLength]

\* format(date, 'yyyy-MM-dd') and the shorter patterns: the fields the
\* pattern prints.
format(date, pattern) ==
  LET c == CivilFromDays(dayOf(date)) IN
  CASE pattern = "yyyy-MM-dd" -> <<c.year, c.month, c.day>>
    [] pattern = "MMM d, yyyy" -> <<c.month, c.day, c.year>>
    [] pattern = "yyyy-MM" -> <<c.year, c.month>>
    [] pattern = "yyyy" -> <<c.year>>

isSameDay(d, e) == dayOf(d) = dayOf(e)

getDailyAnalytics(targetDate) ==
  LET dayStart == startOfDay(targetDate)
      dayEnd == endOfDay(targetDate)
      daySessions == filterSessionsByDateRange(allSessions, dayStart, dayEnd)
  IN [period |-> IF isSameDay(targetDate, now) THEN <<"today">>
                 ELSE format(targetDate, "yyyy-MM-dd"),
      startDate |-> dayStart,
      endDate |-> dayEnd,
      totalTime |-> SumTotals(groupValues(daySessions)),
      tasks |-> SortByTotal(groupValues(daySessions))]

getWeeklyAnalytics(targetDate) ==
  LET weekStart == startOfWeek(targetDate)
      weekEnd == endOfWeek(targetDate)
      weekSessions == filterSessionsByDateRange(allSessions, weekStart, weekEnd)
      daysInWeek == eachDayOfInterval(weekStart, weekEnd)
  IN [period |-> IF isWithinInterval(now, [start |-> weekStart, end |-> weekEnd])
                 THEN <<"this week">>
                 ELSE format(weekStart, "MMM d, yyyy"),
      startDate |-> weekStart,
      endDate |-> weekEnd,
      totalTime |-> SumTotals(groupValues(weekSessions)),
      tasks |-> SortByTotal(groupValues(weekSessions)),
      dailyBreakdown |->
        [i \in 1..Len(daysInWeek) |->
           LET day == daysInWeek[i]
               daySessions == filterSessionsByDateRange(weekSessions, startOfDay(day),
                                                        endOfDay(day))
           IN [date |-> day,
               totalTime |-> SumDurations(daySessions),
               tasks |-> groupSessionsByTask(daySessions)]]]

getMonthlyAnalytics(targetDate) ==
  LET monthStart == startOfMonth(targetDate)
      monthEnd == endOfMonth(targetDate)
      monthSessions == filterSessionsByDateRange(allSessions, monthStart, monthEnd)
      weeksInMonth == eachWeekOfInterval(monthStart, monthEnd)
  IN [period |-> IF isWithinInterval(now, [start |-> monthStart, end |-> monthEnd])
                 THEN <<"this month">>
                 ELSE format(monthStart, "yyyy-MM"),
      startDate |-> monthStart,
      endDate |-> monthEnd,
      totalTime |-> SumTotals(groupValues(monthSessions)),
      tasks |-> SortByTotal(groupValues(monthSessions)),
      weeklyBreakdown |->
        [i \in 1..Len(weeksInMonth) |->
           LET weekStart == weeksInMonth[i]
               weekEnd == endOfWeek(weekStart)
               weekSessions == filterSessionsByDateRange(monthSessions, weekStart, weekEnd)
           IN [weekStart |-> weekStart,
               weekEnd |-> weekEnd,
               totalTime |-> SumDurations(weekSessions),
               tasks |-> groupSessionsByTask(weekSessions)]]]

getYearlyAnalytics(targetDate) ==
  LET yearStart == startOfYear(targetDate)
      yearEnd == endOfYear(targetDate)
      yearSessions == filterSessionsByDateRange(allSessions, yearStart, yearEnd)
      monthsInYear == eachMonthOfInterval(yearStart, yearEnd)
  IN [period |-> IF isWithinInterval(now, [start |-> yearStart, end |-> yearEnd])
                 THEN <<"this year">>
                 ELSE format(yearStart, "yyyy"),
      startDate |-> yearStart,
      endDate |-> yearEnd,
      totalTime |-> SumTotals(groupValues(yearSessions)),
      tasks |-> SortByTotal(groupValues(yearSessions)),
      monthlyBreakdown |->
        [i \in 1..Len(monthsInYear) |->
           LET monthStart == monthsInYear[i]
               monthEnd == endOfMonth(monthStart)
               monthSessions == filterSessionsByDateRange(yearSessions, monthStart,
                                                          monthEnd)
           IN [month |-> monthStart,
               totalTime |-> SumDurations(monthSessions),
               tasks |-> groupSessionsByTask(monthSessions)]]]

\* getTaskSummary without the sort.
getTaskSummary_Unsorted ==
  LET taskArray == ObjectValues
      totalTimeAllTasks == SumTotals(taskArray)
  IN IF Len(taskArray) = 0 THEN [tasks |-> <<>>, totalTimeAllTasks |-> 0]
     ELSE [tasks |->
             [i \in 1..Len(taskArray) |->
                [name |-> taskArray[i].name,
                 totalTime |-> taskArray[i].totalTime,
                 percentage |-> IF totalTimeAllTasks > 0
                                THEN Percentage(taskArray[i].totalTime, totalTimeAllTasks)
                                ELSE 0,
                 sessionCount |-> Len(taskArray[i].sessions)]],
           totalTimeAllTasks |-> totalTimeAllTasks]

\* What getTaskSummary returns; every stored record has a totalTime and a
\* sessions array.
getTaskSummary ==
  LET taskArray == ObjectValues
      totalTimeAllTasks == SumTotals(taskArray)
  IN IF Len(taskArray) = 0 THEN [tasks |-> <<>>, totalTimeAllTasks |-> 0]
     ELSE [tasks |->
             SortByTotal(
               [i \in 1..Len(taskArray) |->
                  [name |-> taskArray[i].name,
                   totalTime |-> taskArray[i].totalTime,
                   percentage |-> IF totalTimeAllTasks > 0
                                  THEN Percentage(taskArray[i].totalTime, totalTimeAllTasks)
                                  ELSE 0,
                   sessionCount |-> Len(taskArray[i].sessions)]]),
           totalTimeAllTasks |-> totalTimeAllTasks]

\* A call of getTaskSummary; it changes nothing in the store.
ReadTaskSummary ==
  /\ op' = [name |-> "getTaskSummary"]
  /\ result' = getTaskSummary
  /\ UNCHANGED <<now, tasks, taskKeys, tracking, hist>>

\* A call of one of the four period reports; it changes nothing in the
\* store.
ReadAnalytics(kind, targetDate) ==
  /\ op' = [name |-> "getAnalytics", kind |-> kind, targetDate |-> targetDate]
  /\ result' = CASE kind = "daily" -> getDailyAnalytics(targetDate)
                 [] kind = "weekly" -> getWeeklyAnalytics(targetDate)
                 [] kind = "monthly" -> getMonthlyAnalytics(targetDate)
                 [] kind = "yearly" -> getYearlyAnalytics(targetDate)
  /\ UNCHANGED <<now, tasks, taskKeys, tracking, hist>>

\* ---------------------------------------------------------------- queries
\* A call of getStatus, listTasks or getTaskGoals: each loads and returns,
\* and saves nothing.
\* A getStatus that saves the tracking record with the start timestamp
\* set to the time of the call.
ReadStatus_RestartsClock ==
  /\ op' = [name |-> "getStatus"]
  /\ result' = [success |-> TRUE, status |-> getStatus]
  /\ tracking' = IF IsActive(loadTracking)
                 THEN [loadTracking EXCEPT !.startTime = toISOString(now)]
                 ELSE tracking
  /\ UNCHANGED <<now, tasks, taskKeys, hist>>

ReadStatus ==
  /\ op' = [name |-> "getStatus"]
  /\ result' = [success |-> TRUE, status |-> getStatus]
  /\ UNCHANGED <<now, tasks, taskKeys, tracking, hist>>

ReadTasks ==
  /\ op' = [name |-> "listTasks"]
  /\ result' = [success |-> TRUE, list |-> listTasks]
  /\ UNCHANGED <<now, tasks, taskKeys, tracking, hist>>

\* getTaskGoals that stores the empty goals object it returns for a task
\* without goals.
ReadTaskGoals_StoresDefault(taskId) ==
  /\ op' = [name |-> "getTaskGoals", taskId |-> taskId]
  /\ result' = [success |-> TRUE, goals |-> getTaskGoals(taskId)]
  /\ tasks' = IF taskId \in DOMAIN loadTasks /\ taskId \notin DOMAIN loadGoals
              THEN saveGoals((taskId :> <<>>) @@ loadGoals)
              ELSE tasks
  /\ UNCHANGED <<now, taskKeys, tracking, hist>>

ReadTaskGoals(taskId) ==
  /\ op' = [name |-> "getTaskGoals", taskId |-> taskId]
  /\ result' = [success |-> TRUE, goals |-> getTaskGoals(taskId)]
  /\ UNCHANGED <<now, tasks, taskKeys, tracking, hist>>

\* ---------------------------------------------------------------- damage
\* tasks.json or tracking.json is overwritten from outside with text that is
\* not JSON; the keys of the task map go with it.
CorruptTasks ==
  /\ ~IsCorrupt(tasks)
  /\ tasks' = Corrupt
  /\ taskKeys' = <<>>
  /\ op' = [name |-> "corruptTasks"]
  /\ UNCHANGED <<now, tracking, result, hist>>

CorruptTracking ==
  /\ ~IsCorrupt(tracking)
  /\ tracking' = Corrupt
  /\ op' = [name |-> "corruptTracking"]
  /\ UNCHANGED <<now, tasks, taskKeys, result, hist>>

\* ---------------------------------------------------------------- clock
\* Tick with the clock set back.
Tick_Backwards(max) ==
  /\ now > -max
  /\ now' = now - 1
  /\ UNCHANGED <<tasks, taskKeys, tracking, op, result, hist>>

Tick(max) ==
  /\ now < max
  /\ now' = now + 1
  /\ UNCHANGED <<tasks, taskKeys, tracking, op, result, hist>>

Init ==
  /\ now = 0
  /\ tasks = <<>>
  /\ taskKeys = <<>>
  /\ tracking = IdleTracking
  /\ op = [name |-> "init"]
  /\ result = [success |-> TRUE]
  /\ hist = [start |-> 0, paused |-> 0]

\* The tracking state machine over the task store.
TrackingOps ==
  \/ \E n \in TaskIdInputs : createTask(n)
  \/ \E n \in TaskIdInputs : deleteTask(n)
  \/ \E n \in TaskIdInputs : startTracking(n)
  \/ stopTracking
  \/ pauseTracking
  \/ resumeTracking

NextTrack ==
  \/ Tick(MaxTime)
  \/ TrackingOps

SpecTrack == Init /\ [][NextTrack]_vars

\* Tracking from the command line, with tasks created by the start
\* command.
CommandNames == {"a", "b", "a b"}

NextCommand ==
  \/ Tick(MaxTime)
  \/ \E n \in CommandNames : startCommand(n)
  \/ \E n \in CommandNames : deleteTask(n)
  \/ stopTracking
  \/ pauseTracking
  \/ resumeTracking

SpecCommand == Init /\ [][NextCommand]_vars

\* Tracking with runs of stopTracking that are killed between their two
\* writes.
NextInterrupt ==
  \/ NextTrack
  \/ stopTrackingInterrupted

SpecInterrupt == Init /\ [][NextInterrupt]_vars

\* Every operation: the tracking state machine, task creation with
\* rejected names, and the goal registry.
Next ==
  \/ Tick(MaxTimeAll)
  \/ TrackingOps
  \/ \E n \in NameInputs \ TaskIdInputs : createTask(n)
  \/ \E n \in GoalTaskInputs, p \in PeriodInputs, d \in DurationInputs : setGoal(n, p, d)
  \/ \E n \in GoalTaskInputs, p \in {NULL} \cup {Some(q) : q \in PeriodInputs} :
       removeGoal(n, p)

Spec == Init /\ [][Next]_vars

\* Every operation and the three queries.
NextQueries ==
  \/ Next
  \/ ReadStatus
  \/ ReadTasks
  \/ \E n \in TaskIdInputs : ReadTaskGoals(n)

SpecQueries == Init /\ [][NextQueries]_vars

\* Every operation over files that may be damaged between two operations.
NextCorrupt ==
  \/ Next
  \/ CorruptTasks
  \/ CorruptTracking

SpecCorrupt == Init /\ [][NextCorrupt]_vars

\* The task store on its own, with the wider set of names.
NextStore ==
  \/ Tick(MaxTime)
  \/ \E n \in StoreNames : createTask(n)
  \/ \E n \in StoreNames : deleteTask(n)

SpecStore == Init /\ [][NextStore]_vars

\* The goal registry on its own, with the wider sets of periods and
\* durations.
NextGoals ==
  \/ \E n \in GoalNames : createTask(n)
  \/ \E n \in GoalNames : deleteTask(n)
  \/ \E n \in GoalNames, p \in GoalPeriods, d \in GoalDurations : setGoal(n, p, d)
  \/ \E n \in GoalNames, p \in {NULL} \cup {Some(q) : q \in GoalPeriods} :
       removeGoal(n, p)
  \/ \E n \in GoalNames, p \in GoalPeriods : ReadGoalProgress(n, p, now)

SpecGoals == Init /\ [][NextGoals]_vars

\* The goal and task operations on a store that tracking has filled: "a"
\* and "b" were created, a session of "a" was recorded, and tracking is
\* Idle or "a" is being tracked again, Active or Paused.
FrameTracking ==
  {IdleTracking,
   newTracking("a", 1, IdleTracking),
   pausedTracking(newTracking("a", 1, IdleTracking), 1)}

InitFrame ==
  /\ now = 1
  /\ tasks = ("a" :> PushSession([NewTask("a") EXCEPT !.created = toISOString(0)],
                                 "a", 0, 1, 1))
             @@ ("b" :> [NewTask("b") EXCEPT !.created = toISOString(0)])
  /\ taskKeys = <<"a", "b">>
  /\ tracking \in FrameTracking
  /\ op = [name |-> "init"]
  /\ result = [success |-> TRUE]
  /\ hist = [start |-> IF IsIdle(tracking) THEN 0 ELSE 1, paused |-> 0]

FrameNames == {"a", "b", "constructor"}
FramePeriods == {"daily", "weekly", "hourly"}
FrameDurations == {0, 2, 3}

NextFrame ==
  \/ \E n \in FrameNames \cup {"A_z-9"} : createTask(n)
  \/ \E n \in FrameNames, p \in FramePeriods, d \in FrameDurations : setGoal(n, p, d)
  \/ \E n \in FrameNames, p \in {NULL} \cup {Some(q) : q \in FramePeriods} :
       removeGoal(n, p)

SpecFrame == InitFrame /\ [][NextFrame]_vars

\* Goal progress: a store with task "a", which has the same goal for every
\* period and a list of sessions recorded one after the other; the clock
\* stands after the last session.
ProgressSession(start, duration) ==
  [task |-> "a", startTime |-> toISOString(start),
   endTime |-> toISOString(start + duration), duration |-> duration]

ProgressSessionLists ==
  LET one == {ProgressSession(st, d) : st \in ProgressStarts, d \in ProgressDurations}
      all == UNION {[1..n -> one] : n \in 0..MaxProgressSessions}
  IN {ss \in all :
        \A i \in 1..(Len(ss) - 1) : getTime(ss[i].endTime) <= getTime(ss[i + 1].startTime)}

InitProgress ==
  /\ now = DaysFromCivil(1971, 1, 2) * DayLength
  /\ \E g \in 1..MaxGoal, ss \in ProgressSessionLists :
       tasks = ("a" :> [id |-> "a", name |-> "a", created |-> toISOString(0),
                        totalTime |-> SumDurations(ss), sessions |-> ss,
                        goals |-> Some([p \in VALID_PERIODS |-> g])])
  /\ taskKeys = <<"a">>
  /\ tracking = IdleTracking
  /\ op = [name |-> "init"]
  /\ result = [success |-> TRUE]
  /\ hist = [start |-> 0, paused |-> 0]

NextProgress ==
  \E p \in VALID_PERIODS, d \in TargetDates : ReadGoalProgress("a", p, d)

SpecProgress == InitProgress /\ [][NextProgress]_vars

\* The period reports: a store with the tasks "b" and "a", created in that
\* order, and sessions recorded one after the other; the clock stands after
\* the last session.
ReportSessionLists ==
  LET one == {[task |-> t, startTime |-> toISOString(x[1]),
               endTime |-> toISOString(x[1] + x[2]), duration |-> x[2]] :
                t \in ReportTasks, x \in ReportSessions}
      all == UNION {[1..n -> one] : n \in 0..MaxReportSessions}
  IN {ss \in all :
        \A i \in 1..(Len(ss) - 1) : getTime(ss[i].endTime) <= getTime(ss[i + 1].startTime)}

InitReports ==
  /\ now = DaysFromCivil(1971, 1, 2) * DayLength
  /\ \E ss \in ReportSessionLists :
       tasks = [t \in ReportTasks |->
                  LET mine == SelectSeq(ss, LAMBDA session : session.task = t)
                  IN [id |-> t, name |-> t, created |-> toISOString(0),
                      totalTime |-> SumDurations(mine), sessions |-> mine,
                      goals |-> NULL]]
  /\ taskKeys = <<"b", "a">>
  /\ tracking = IdleTracking
  /\ op = [name |-> "init"]
  /\ result = [success |-> TRUE]
  /\ hist = [start |-> 0, paused |-> 0]

NextReports ==
  \/ \E k \in ReportKinds, d \in ReportDates : ReadAnalytics(k, d)
  \/ ReadTaskSummary

SpecReports == InitReports /\ [][NextReports]_vars

\* The tasks and periods a streak is asked for: the stored task and one that
\* is not stored; the four periods, an unknown one and one that
\* Object.prototype defines.
StreakTaskInputs == {"a", "b"}
StreakPeriodInputs == VALID_PERIODS \cup {"hourly", "constructor"}

\* Streaks: a store with task "a", which has the goal StreakGoal for every
\* period and at most one session on today and on each of the MaxStreakDays
\* days before; today is the last day of a 31 day month or a leap day.
StreakToday == {DaysFromCivil(1970, 3, 31), DaysFromCivil(1972, 2, 29)}

RECURSIVE StreakSessions(_, _)
StreakSessions(today, durations) ==
  IF durations = <<>> THEN <<>>
  ELSE LET back == Len(durations) - 1
           start == (today - back) * DayLength + StreakHour - durations[1]
       IN (IF durations[1] = 0 THEN <<>>
           ELSE <<ProgressSession(start, durations[1])>>)
            \o StreakSessions(today, Tail(durations))

InitStreak ==
  /\ \E today \in StreakToday, durations \in [1..(MaxStreakDays + 1) -> StreakDurations] :
       /\ now = today * DayLength + StreakHour
       /\ tasks = ("a" :> [id |-> "a", name |-> "a", created |-> toISOString(0),
                           totalTime |-> SumDurations(StreakSessions(today, durations)),
                           sessions |-> StreakSessions(today, durations),
                           goals |-> Some([p \in VALID_PERIODS |-> StreakGoal])])
  /\ taskKeys = <<"a">>
  /\ tracking = IdleTracking
  /\ op = [name |-> "init"]
  /\ result = [success |-> TRUE]
  /\ hist = [start |-> 0, paused |-> 0]

NextStreak ==
  \E n \in StreakTaskInputs, p \in StreakPeriodInputs : ReadGoalStreak(n, p)

SpecStreak == InitStreak /\ [][NextStreak]_vars

\* Streaks on every day of a leap year: task "a" has the goal StreakGoal
\* for every period and no session, or one session today that reaches it.
CalendarToday == DaysFromCivil(1972, 1, 1)..DaysFromCivil(1972, 12, 31)

InitCalendar ==
  /\ \E today \in CalendarToday, duration \in {0, StreakGoal} :
       /\ now = today * DayLength + StreakHour
       /\ tasks = ("a" :> [id |-> "a", name |-> "a", created |-> toISOString(0),
                           totalTime |-> duration,
                           sessions |-> StreakSessions(today, <<duration>>),
                           goals |-> Some([p \in VALID_PERIODS |-> StreakGoal])])
  /\ taskKeys = <<"a">>
  /\ tracking = IdleTracking
  /\ op = [name |-> "init"]
  /\ result = [success |-> TRUE]
  /\ hist = [start |-> 0, paused |-> 0]

NextCalendar ==
  \E p \in VALID_PERIODS : ReadGoalStreak("a", p)

SpecCalendar == InitCalendar /\ [][NextCalendar]_vars

\* ---------------------------------------------------------------- properties
\* A step taken by the operation called name (the clock stands still
\* while an operation runs, and every operation records itself in op).
Ran(name) == op'.name = name /\ now' = now

\* The session appended last to a task record.
LastSession(task) == task.sessions[Len(task.sessions)]

\* C1: in every reachable state the pause timestamp is non-null exactly
\* when the paused flag is true, and the current task is null exactly when
\* the start timestamp is null, in which case the paused flag is false.
C1_TrackingRecordConsistent ==
  /\ Truthy(tracking.pausedTime) <=> tracking.isPaused
  /\ ~Truthy(tracking.currentTask) <=> ~Truthy(tracking.startTime)
  /\ ~Truthy(tracking.currentTask) => ~tracking.isPaused /\ ~Truthy(tracking.pausedTime)

\* A resume has acted on a record that was paused for some time.
C1_Witness ==
  /\ op.name = "resumeTracking" /\ result.success
  /\ hist.paused > 0
  /\ IsActive(tracking)

\* C2: whenever the tracking record names a current task, a task with that
\* id is in the task store.
C2_CurrentTaskExists ==
  Truthy(tracking.currentTask) => tracking.currentTask[1] \in DOMAIN tasks

\* C3: after every operation each task's totalTime is the sum of the
\* durations of the sessions in its list.
C3_TotalIsSumOfSessions ==
  \A t \in DOMAIN tasks : tasks[t].totalTime = SumDurations(tasks[t].sessions)

\* A task with two sessions and time on it, and a goal set on it after they
\* were recorded.
C3_Witness ==
  \E t \in DOMAIN tasks :
    /\ Len(tasks[t].sessions) = 2
    /\ tasks[t].totalTime > 0
    /\ op.name = "setGoal" /\ op.taskId = t /\ result.success
    /\ Truthy(tasks[t].goals)

\* C4: a stop in Active reports, and records in the session it appends,
\* the duration (stop time - time start was called) - (sum of the
\* completed pause intervals).
C4_ActiveStopDuration ==
  [][Ran("stopTracking") /\ IsActive(tracking) =>
       LET t == tracking.currentTask[1]
           d == (now - hist.start) - hist.paused
       IN /\ result'.success
          /\ result'.duration = d
          /\ result'.session.duration = d
          /\ t \in DOMAIN tasks =>
               /\ Len(tasks'[t].sessions) = Len(tasks[t].sessions) + 1
               /\ LastSession(tasks'[t]).duration = d]_vars

\* A stop in Active after a pause and a resume, with time left on the
\* session, which the stored task received.
C4_Witness ==
  /\ op.name = "stopTracking" /\ op.from = "Active" /\ result.success
  /\ hist.paused > 0
  /\ result.duration > 0
  /\ result.session.endTime - hist.start > result.duration
  /\ result.session.task \in DOMAIN tasks
  /\ LastSession(tasks[result.session.task]).duration = result.duration

\* C5: a stop in Paused reports and records the duration (pause timestamp -
\* adjusted start timestamp), whatever the time of the stop.
C5_PausedStopDuration ==
  [][Ran("stopTracking") /\ IsPaused(tracking) =>
       LET t == tracking.currentTask[1]
           d == getTime(tracking.pausedTime) - getTime(tracking.startTime)
       IN /\ result'.success
          /\ result'.duration = d
          /\ result'.session.duration = d
          /\ d = (getTime(tracking.pausedTime) - hist.start) - hist.paused
          /\ t \in DOMAIN tasks =>
               /\ Len(tasks'[t].sessions) = Len(tasks[t].sessions) + 1
               /\ LastSession(tasks'[t]).duration = d]_vars

\* A stop in Paused called after the pause, with an earlier pause/resume
\* cycle; the stored task received the session.
C5_Witness ==
  /\ op.name = "stopTracking" /\ op.from = "Paused" /\ result.success
  /\ hist.paused > 0
  /\ result.session.endTime - result.session.startTime > result.duration
  /\ result.session.task \in DOMAIN tasks
  /\ LastSession(tasks[result.session.task]).duration = result.duration

\* C6: every stop that reports success appends exactly one session, with
\* the reported duration, to the task that was tracked, adds that duration
\* to its totalTime, and changes no other task.
C6_StopAppendsOneSession ==
  [][Ran("stopTracking") /\ result'.success =>
       LET t == tracking.currentTask[1]
       IN /\ t \in DOMAIN tasks
          /\ DOMAIN tasks' = DOMAIN tasks
          /\ Len(tasks'[t].sessions) = Len(tasks[t].sessions) + 1
          /\ SubSeq(tasks'[t].sessions, 1, Len(tasks[t].sessions)) = tasks[t].sessions
          /\ LastSession(tasks'[t]).duration = result'.duration
          /\ tasks'[t].totalTime = tasks[t].totalTime + result'.duration
          /\ \A u \in DOMAIN tasks \ {t} : tasks'[u] = tasks[u]]_vars

\* C7: start succeeds only in Idle for an existing task, fails for
\* a missing task, fails in Active or Paused with the error that names the
\* tracked task, changes nothing on failure and on success leaves the
\* record Active for the task with start = now and no pause timestamp.
C7_StartContract ==
  [][\A id \in TaskIdInputs : Ran("startTracking") /\ op'.taskId = id =>
       /\ result'.success => IsIdle(tracking) /\ id \in DOMAIN tasks
       /\ id \notin DOMAIN tasks => ~result'.success
       /\ ~IsIdle(tracking) =>
            /\ ~result'.success
            /\ result'.error = <<"AlreadyTracking", tracking.currentTask>>
       /\ ~result'.success => UNCHANGED <<tracking, tasks>>
       /\ result'.success =>
            /\ tracking'.currentTask = Some(id)
            /\ tracking'.startTime = toISOString(now)
            /\ tracking'.pausedTime = NULL
            /\ ~tracking'.isPaused
            /\ UNCHANGED tasks]_vars

\* C8: pause succeeds exactly in Active; in Idle and in Paused it fails and
\* leaves the record as it was; on success the record is Paused with the
\* pause timestamp = now and the start timestamp and current task kept.
C8_PauseContract ==
  [][Ran("pauseTracking") =>
       /\ result'.success <=> IsActive(tracking)
       /\ ~IsActive(tracking) => UNCHANGED <<tracking, tasks>>
       /\ IsActive(tracking) =>
            /\ tracking'.isPaused
            /\ tracking'.pausedTime = toISOString(now)
            /\ tracking'.startTime = tracking.startTime
            /\ tracking'.currentTask = tracking.currentTask
            /\ UNCHANGED tasks]_vars

\* A pause refused in Paused at a later time than the pause in force.
C8_Witness ==
  /\ op.name = "pauseTracking" /\ op.from = "Paused" /\ ~result.success
  /\ IsPaused(tracking)
  /\ getTime(tracking.pausedTime) < now
  /\ getTime(tracking.startTime) < getTime(tracking.pausedTime)

\* C9: resume succeeds exactly in Paused; in Idle and in Active it fails
\* and leaves the record as it was; on success the record is Active for the
\* same task with the pause timestamp cleared.
C9_ResumeContract ==
  [][Ran("resumeTracking") =>
       /\ result'.success <=> IsPaused(tracking)
       /\ ~IsPaused(tracking) => UNCHANGED <<tracking, tasks>>
       /\ IsPaused(tracking) =>
            /\ IsActive(tracking')
            /\ tracking'.pausedTime = NULL
            /\ tracking'.currentTask = tracking.currentTask
            /\ UNCHANGED tasks]_vars

\* A resume refused in Active, after an earlier resume had shifted the
\* start.
C9_Witness ==
  /\ op.name = "resumeTracking" /\ op.from = "Active" /\ ~result.success
  /\ IsActive(tracking)
  /\ hist.paused > 0
  /\ getTime(tracking.startTime) = hist.start + hist.paused

\* C10: stop fails in Idle and changes nothing; it succeeds in Active and
\* in Paused and leaves the record Idle with current task, start and pause
\* timestamps cleared; the start of an existing task that follows a
\* successful stop succeeds.
C10_StopContract ==
  [][/\ Ran("stopTracking") =>
          /\ result'.success <=> ~IsIdle(tracking)
          /\ IsIdle(tracking) => UNCHANGED <<tracking, tasks>>
          /\ ~IsIdle(tracking) =>
               /\ tracking'.currentTask = NULL
               /\ tracking'.startTime = NULL
               /\ tracking'.pausedTime = NULL
               /\ ~tracking'.isPaused
     /\ \A id \in TaskIdInputs :
          /\ op.name = "stopTracking" /\ result.success
          /\ Ran("startTracking") /\ op'.taskId = id /\ id \in DOMAIN tasks
          => /\ result'.success
             /\ tracking'.currentTask = Some(id)]_vars

\* A stored task started again right after a stop in Paused ended its
\* previous session.
C10_Witness ==
  /\ op.name = "startTracking" /\ result.success
  /\ \E t \in DOMAIN tasks :
       /\ Len(tasks[t].sessions) > 0
       /\ Some(t) = tracking.currentTask
       /\ getTime(LastSession(tasks[t]).endTime) = getTime(tracking.startTime)
       /\ getTime(LastSession(tasks[t]).endTime) - getTime(LastSession(tasks[t]).startTime)
            > LastSession(tasks[t]).duration

\* C11: getStatus reports as elapsed time now - (adjusted) start in Active,
\* pause timestamp - start in Paused, and zero with a null current task in
\* Idle; the value excludes every completed pause interval of the session,
\* and it stays the same while the clock advances in Paused.
C11_StatusElapsed ==
  /\ [](\A status \in {getStatus} :
          /\ IsIdle(tracking) =>
               /\ status.elapsedTime = 0
               /\ status.currentTask = NULL
               /\ ~status.isTracking
          /\ IsActive(tracking) =>
               /\ status.isTracking /\ ~status.isPaused
               /\ status.currentTask = tracking.currentTask
               /\ status.elapsedTime = now - getTime(tracking.startTime)
               /\ status.elapsedTime = (now - hist.start) - hist.paused
          /\ IsPaused(tracking) =>
               /\ status.isTracking /\ status.isPaused
               /\ status.currentTask = tracking.currentTask
               /\ status.elapsedTime =
                    getTime(tracking.pausedTime) - getTime(tracking.startTime)
               /\ status.elapsedTime =
                    (getTime(tracking.pausedTime) - hist.start) - hist.paused)
  /\ [][IsPaused(tracking) /\ now' > now =>
          getStatus'.elapsedTime = getStatus.elapsedTime]_vars

\* A resumed session with a completed pause behind it and time on it, read
\* after the clock has advanced.
C11_Witness ==
  /\ IsActive(tracking)
  /\ op.name = "resumeTracking" /\ result.success
  /\ hist.paused > 0
  /\ getStatus.elapsedTime > 0
  /\ now - hist.start > getStatus.elapsedTime

\* C12: createTask fails and leaves the task store as it was when the name
\* is empty, when it holds a character outside [A-Za-z0-9_-], and when a
\* task of that name is in the store (whose sessions, totalTime, goals and
\* creation timestamp therefore stay as they were).
C12_CreateRejects ==
  [][(/\ Ran("createTask")
      /\ \/ op'.taskId = ""
         \/ \E i \in 1..Len(NameChars[op'.taskId]) :
              NameChars[op'.taskId][i] \notin PatternChars
         \/ op'.taskId \in DOMAIN tasks)
       => /\ ~result'.success
          /\ tasks' = tasks]_vars

\* A create refused for the name of a task that has a session, time and a
\* goal on it.
C12_Witness ==
  /\ op.name = "createTask" /\ ~result.success
  /\ result.error = <<"Exists", Some(op.taskId)>>
  /\ op.taskId \in DOMAIN tasks
  /\ Len(tasks[op.taskId].sessions) > 0
  /\ tasks[op.taskId].totalTime > 0
  /\ Truthy(tasks[op.taskId].goals)

\* C13: for every name matching [A-Za-z0-9_-]+ that is not a task,
\* createTask succeeds and getTask then returns the created record (id =
\* name, totalTime 0, no sessions); for every name that is not in the store
\* getTask returns null.
C13_CreateGetRoundTrip ==
  /\ [](\A n \in StoreNames : n \notin DOMAIN tasks => getTask(n) = NULL)
  /\ [][\A n \in StoreNames :
          /\ Ran("createTask") /\ op'.taskId = n
          /\ n # ""
          /\ \A i \in 1..Len(NameChars[n]) : NameChars[n][i] \in PatternChars
          /\ n \notin DOMAIN tasks
          => /\ result'.success
             /\ getTask(n)' = Some(result'.task)
             /\ result'.task.id = n
             /\ result'.task.totalTime = 0
             /\ result'.task.sessions = <<>>]_vars

\* Where the task called t stands in the list.
Pos(list, t) == CHOOSE i \in 1..Len(list) : list[i].id = t

\* C14: listTasks returns exactly the tasks in the store, each once, in
\* ascending order of creation timestamp, and a task created earlier in the
\* sequence of operations never stands after one created later (taskKeys
\* holds the stored tasks in the order they were created).
C14_ListInCreationOrder ==
  LET list == listTasks IN
  /\ Len(list) = Cardinality(DOMAIN tasks)
  /\ \A t \in DOMAIN tasks : \E i \in 1..Len(list) : list[i] = tasks[t]
  /\ \A i, j \in 1..Len(list) :
       i < j => getTime(list[i].created) <= getTime(list[j].created)
  /\ \A i, j \in 1..Len(taskKeys) :
       i < j => Pos(list, taskKeys[i]) < Pos(list, taskKeys[j])

\* C14 amended: listTasks returns exactly the tasks in the store, each once,
\* in ascending order of creation timestamp; a task created earlier never
\* stands after one created later when their timestamps differ or when
\* neither name is an array index.
C14_ListOrder ==
  LET list == listTasks IN
  /\ Len(list) = Cardinality(DOMAIN tasks)
  /\ \A t \in DOMAIN tasks : \E i \in 1..Len(list) : list[i] = tasks[t]
  /\ \A i, j \in 1..Len(list) :
       i < j => getTime(list[i].created) <= getTime(list[j].created)
  /\ \A i, j \in 1..Len(taskKeys) :
       /\ i < j
       /\ \/ getTime(tasks[taskKeys[i]].created) < getTime(tasks[taskKeys[j]].created)
          \/ {taskKeys[i], taskKeys[j]} \cap DOMAIN ArrayIndex = {}
       => Pos(list, taskKeys[i]) < Pos(list, taskKeys[j])

\* Three tasks listed in an order that is neither the order of the keys of
\* the store nor the order of creation: the sort moved a task, and a task
\* named by an array index stands before one created earlier at the same
\* timestamp.
C14_Witness ==
  LET list == listTasks IN
  /\ Len(list) >= 3
  /\ list # ObjectValues
  /\ \E i, j \in 1..Len(taskKeys) :
       /\ i < j
       /\ Pos(list, taskKeys[j]) < Pos(list, taskKeys[i])

\* C15: deleteTask fails and leaves the store as it was when the task is
\* absent; otherwise it removes the task with its sessions and its goals and
\* leaves every other task record as it was.
C15_DeleteContract ==
  [][\A n \in TaskIdInputs : Ran("deleteTask") /\ op'.taskId = n =>
       IF n \notin DOMAIN tasks
       THEN /\ ~result'.success
            /\ tasks' = tasks
       ELSE /\ result'.success
            /\ DOMAIN tasks' = DOMAIN tasks \ {n}
            /\ n \notin DOMAIN loadGoals'
            /\ \A u \in DOMAIN tasks \ {n} : tasks'[u] = tasks[u]]_vars

\* C16: setGoal fails, with no goal and no task record modified, when the
\* period is not one of daily, weekly, monthly, yearly, when the duration is
\* zero or less, and when the task does not exist.
C16_SetGoalRejects ==
  [][\A n \in GoalNames, p \in GoalPeriods, d \in GoalDurations :
       /\ Ran("setGoal")
       /\ op'.taskId = n /\ op'.period = p /\ op'.duration = d
       /\ \/ p \notin {"daily", "weekly", "monthly", "yearly"}
          \/ d <= 0
          \/ n \notin DOMAIN tasks
       => /\ ~result'.success
          /\ tasks' = tasks]_vars

\* C17: a successful setGoal(taskId, period, d) makes
\* getTaskGoals(taskId)[period] equal d, leaves the task's goals for the
\* other periods as they were, and reports 'set' exactly when the task had
\* no goal for the period before the call and 'updated' when it had one.
C17_SetGoalEffect ==
  [][\A n \in GoalNames, p \in GoalPeriods :
       /\ Ran("setGoal") /\ op'.taskId = n /\ op'.period = p
       /\ result'.success
       => /\ Get(getTaskGoals(n), p)' = Some(op'.duration)
          /\ \A q \in GoalPeriods \ {p} :
               Get(getTaskGoals(n), q)' = Get(getTaskGoals(n), q)
          /\ result'.message[1] =
               IF n \in DOMAIN loadGoals /\ p \in DOMAIN loadGoals[n]
               THEN "updated" ELSE "set"]_vars

\* C18: removeGoal(taskId, period) fails and leaves the goals as they were
\* when the task has no goal for the period; otherwise it deletes that
\* period's goal only, and when that was the task's last goal the task has
\* no goal entry afterwards and is not among the tasks with goals.
C18_RemoveGoalPeriod ==
  [][\A n \in GoalNames, p \in GoalPeriods :
       Ran("removeGoal") /\ op'.taskId = n /\ op'.period = Some(p) =>
         IF n \notin DOMAIN loadGoals \/ p \notin DOMAIN loadGoals[n]
         THEN /\ ~result'.success
              /\ tasks' = tasks
         ELSE /\ result'.success
              /\ \A q \in DOMAIN loadGoals[n] \ {p} :
                   /\ n \in DOMAIN loadGoals'
                   /\ q \in DOMAIN loadGoals'[n]
                   /\ loadGoals'[n][q] = loadGoals[n][q]
              /\ n \in DOMAIN loadGoals' => p \notin DOMAIN loadGoals'[n]
              /\ DOMAIN loadGoals[n] = {p} =>
                   /\ n \notin DOMAIN loadGoals'
                   /\ tasks'[n] \notin getTasksWithGoals'
              /\ \A u \in DOMAIN tasks \ {n} : tasks'[u] = tasks[u]]_vars

\* C19: removeGoal(taskId) without a period fails when the task has no goals
\* at all; otherwise it deletes all of the task's goals, so that
\* getTaskGoals(taskId) is the empty mapping afterwards, and leaves the
\* goals of the other tasks as they were.
C19_RemoveAllGoals ==
  [][\A n \in GoalNames :
       Ran("removeGoal") /\ op'.taskId = n /\ op'.period = NULL =>
         IF n \notin DOMAIN loadGoals
         THEN /\ ~result'.success
              /\ tasks' = tasks
         ELSE /\ result'.success
              /\ getTaskGoals(n)' = <<>>
              /\ \A u \in DOMAIN tasks \ {n} : tasks'[u] = tasks[u]]_vars

\* C20: for a task and period with goal g > 0, and a the sum of the
\* durations of the task's sessions that start within the period's interval
\* around the target date, getGoalProgress returns goalTime = g,
\* actualTime = a, percentage = a/g x 100 rounded to the nearest integer,
\* isAchieved = (a >= g), remainingTime = max(0, g - a) and
\* overTime = max(0, a - g).
C20_GoalProgress ==
  [][(/\ Ran("getGoalProgress")
      /\ op'.taskId \in DOMAIN loadGoals
      /\ op'.period \in DOMAIN loadGoals[op'.taskId]
      /\ loadGoals[op'.taskId][op'.period] > 0)
       => \A g \in {loadGoals[op'.taskId][op'.period]},
             range \in {getTimeRangeForPeriod(op'.period, op'.targetDate)} :
            LET sessions == tasks[op'.taskId].sessions
                inside == {i \in 1..Len(sessions) :
                             /\ range.start <= getTime(sessions[i].startTime)
                             /\ getTime(sessions[i].startTime) <= range.end}
            IN \A a \in {SumOver([i \in inside |-> sessions[i].duration], inside)} :
                 /\ result'.progress # NULL
                 /\ result'.progress[1].goalTime = g
                 /\ result'.progress[1].actualTime = a
                 /\ 2 * g * result'.progress[1].percentage <= 200 * a + g
                 /\ 200 * a + g < 2 * g * (result'.progress[1].percentage + 1)
                 /\ result'.progress[1].isAchieved = (a >= g)
                 /\ result'.progress[1].remainingTime = Max(0, g - a)
                 /\ result'.progress[1].overTime = Max(0, a - g)]_vars

\* The daily progress of a 2 hour goal on a day with two sessions that add
\* up to 3 hours, in a store that also holds a session of another day.
C20_Witness ==
  /\ op.name = "getGoalProgress" /\ op.period = "daily"
  /\ result.progress =
       Some([period |-> "daily", goalTime |-> 2, actualTime |-> 3,
             percentage |-> 150, isAchieved |-> TRUE, remainingTime |-> 0,
             overTime |-> 1])
  /\ Len(tasks[op.taskId].sessions) = 2
  /\ tasks[op.taskId].totalTime = 3

\* C21: getGoalProgress returns null, and no record, whenever no goal is set
\* for the task and period it is asked about: the goal was never set, was
\* removed by removeGoal, or went with the deleted task.
C21_NoGoalIsNull ==
  [][(/\ Ran("getGoalProgress")
      /\ ~(/\ op'.taskId \in DOMAIN loadGoals
           /\ op'.period \in DOMAIN loadGoals[op'.taskId]))
       => (result'.success /\ result'.progress = NULL)]_vars

\* The breakdown of a period report: the daily, weekly or monthly buckets.
Breakdown(report) ==
  IF "dailyBreakdown" \in DOMAIN report THEN report.dailyBreakdown
  ELSE IF "weeklyBreakdown" \in DOMAIN report THEN report.weeklyBreakdown
  ELSE IF "monthlyBreakdown" \in DOMAIN report THEN report.monthlyBreakdown
  ELSE <<>>

\* The buckets of a breakdown that count the session.
BucketsOf(breakdown, session) ==
  {i \in 1..Len(breakdown) :
     /\ session.task \in DOMAIN breakdown[i].tasks
     /\ \E j \in 1..Len(breakdown[i].tasks[session.task].sessions) :
          breakdown[i].tasks[session.task].sessions[j] = session}

\* C22: in the weekly, monthly and yearly report the sub-totals of the
\* breakdown (7 days, the Monday-started weeks that overlap the month, 12
\* months) add up to the report's totalTime, every bucket's sub-total is
\* the sum of the sessions it counts, and every session that starts inside
\* the report's interval is counted in exactly one bucket.
C22_BreakdownAdditive ==
  [][(Ran("getAnalytics") /\ op'.kind # "daily")
       => \A breakdown \in {Breakdown(result')} :
            /\ SumTotals(breakdown) = result'.totalTime
            /\ op'.kind = "weekly" => Len(breakdown) = 7
            /\ op'.kind = "yearly" => Len(breakdown) = 12
            /\ \A i \in 1..Len(breakdown) :
                 breakdown[i].totalTime =
                   SumOver([t \in DOMAIN breakdown[i].tasks |->
                              SumDurations(breakdown[i].tasks[t].sessions)],
                           DOMAIN breakdown[i].tasks)
            /\ \A t \in DOMAIN tasks : \A j \in 1..Len(tasks[t].sessions) :
                 LET session == tasks[t].sessions[j]
                     inside == /\ result'.startDate <= getTime(session.startTime)
                               /\ getTime(session.startTime) <= result'.endDate
                 IN Cardinality(BucketsOf(breakdown, session)) = IF inside THEN 1 ELSE 0]_vars

\* The report of February over a store with a session on Sunday 1 February,
\* in the week that starts in January, and one in the week that ends in
\* March: five weekly buckets, the first and the last holding one session.
C22_Witness ==
  /\ op.name = "getAnalytics" /\ op.kind = "monthly"
  /\ Len(result.weeklyBreakdown) = 5
  /\ result.weeklyBreakdown[1].weekStart < result.startDate
  /\ result.weeklyBreakdown[5].weekEnd > result.endDate
  /\ result.weeklyBreakdown[1].totalTime > 0
  /\ result.weeklyBreakdown[5].totalTime > 0
  /\ result.totalTime = result.weeklyBreakdown[1].totalTime
                          + result.weeklyBreakdown[5].totalTime

\* C23: the dailyBreakdown of getWeeklyAnalytics has exactly 7 entries, for
\* the Monday to the Sunday of the week that contains the reference date in
\* that order, and entry k holds the sum of the durations of exactly the
\* stored sessions that start on the k-th of these days.
C23_DailyBreakdown ==
  [][(Ran("getAnalytics") /\ op'.kind = "weekly")
       => \A monday \in {d \in (dayOf(op'.targetDate) - 6)..dayOf(op'.targetDate) :
                            (d + 3) % 7 = 0} :
            /\ Len(result'.dailyBreakdown) = 7
            /\ \A k \in 1..7 :
                 LET all == UNION {{<<t, j>> : j \in 1..Len(tasks[t].sessions)} :
                                     t \in DOMAIN tasks}
                     on == {x \in all :
                              dayOf(getTime(tasks[x[1]].sessions[x[2]].startTime))
                                = monday + k - 1}
                 IN /\ dayOf(result'.dailyBreakdown[k].date) = monday + k - 1
                    /\ result'.dailyBreakdown[k].totalTime =
                         SumOver([x \in on |-> tasks[x[1]].sessions[x[2]].duration], on)]_vars

\* The week with sessions of 2, 3 and 1 hours on Monday, Wednesday and
\* Friday: the total is 6 hours and the breakdown 2, 0, 3, 0, 1, 0, 0.
C23_Witness ==
  /\ op.name = "getAnalytics" /\ op.kind = "weekly"
  /\ result.totalTime = 6
  /\ [k \in 1..7 |-> result.dailyBreakdown[k].totalTime] = <<2, 0, 3, 0, 1, 0, 0>>

\* The task's goal for the period was reached in the day, week, month or
\* year that lies k periods before the current one.
AchievedBack(taskId, period, k) ==
  LET c == CivilFromDays(dayOf(now))
      date == CASE period = "daily" -> now - k * DayLength
                [] period = "weekly" -> now - k * 7 * DayLength
                [] period = "monthly" -> DateOf(c.year * 12 + c.month - 1 - k, 1)
                [] period = "yearly" -> DateOf((c.year - k) * 12, 1)
  IN getActualTimeForPeriod(taskId, period, date) >= loadGoals[taskId][period]

\* C24: for a task and period with a goal, currentStreak is the number of
\* consecutive periods, counted backwards from the current one, in which
\* the goal was reached; it is 0 when the current period misses the goal
\* and 3 when the three most recent periods reach it and the fourth does
\* not.
C24_CurrentStreak ==
  [][(/\ Ran("getGoalStreak")
      /\ op'.taskId \in DOMAIN loadGoals
      /\ op'.period \in DOMAIN loadGoals[op'.taskId])
       => \A n \in 0..StreakPeriods :
            (/\ \A k \in 0..(n - 1) : AchievedBack(op'.taskId, op'.period, k)
             /\ n < StreakPeriods => ~AchievedBack(op'.taskId, op'.period, n))
              => result'.streak.currentStreak = n]_vars

C26_QueriesReadOnly ==
  [][(Ran("getStatus") \/ Ran("listTasks") \/ Ran("getTaskGoals"))
       => (tasks' = tasks /\ taskKeys' = taskKeys /\ tracking' = tracking)]_vars

\* getTaskGoals has answered with the empty object for a task that is
\* stored without goals while a session is paused.
C26_Witness ==
  /\ op.name = "getTaskGoals"
  /\ op.taskId \in DOMAIN tasks
  /\ result.goals = <<>>
  /\ tasks[op.taskId].goals = NULL
  /\ IsPaused(tracking)

\* C27: with a clock that never goes back, every recorded session duration,
\* every task's totalTime and the elapsed time getStatus returns are at
\* least 0, and the start timestamp of the tracking record, shifted by
\* every resume, is never later than the clock nor, in Paused, than the
\* pause timestamp.
C27_DurationsNonNegative ==
  /\ \A t \in DOMAIN tasks :
       /\ tasks[t].totalTime >= 0
       /\ \A i \in 1..Len(tasks[t].sessions) : tasks[t].sessions[i].duration >= 0
  /\ getStatus.elapsedTime >= 0
  /\ ~IsIdle(tracking) =>
       /\ getTime(tracking.startTime) <= now
       /\ IsActive(tracking) => now - getTime(tracking.startTime) >= 0
       /\ IsPaused(tracking) =>
            /\ getTime(tracking.startTime) <= getTime(tracking.pausedTime)
            /\ getTime(tracking.pausedTime) <= now

\* A session that was paused, resumed after a while, paused again and
\* stopped while paused has been recorded with a positive duration.
C27_Witness ==
  /\ op.name = "stopTracking" /\ op.from = "Paused" /\ result.success
  /\ hist.paused > 0
  /\ result.duration > 0
  /\ \E t \in DOMAIN tasks :
       /\ tasks[t].sessions # <<>>
       /\ LastSession(tasks[t]).duration = result.duration
       /\ tasks[t].totalTime > 0

\* The sessions of a list, and the groups of a report that hold a session.
Members(sessions) == {sessions[i] : i \in 1..Len(sessions)}
GroupsOf(report, session) ==
  {i \in 1..Len(report.tasks) : session \in Members(report.tasks[i].sessions)}

\* C28: a stored session is counted in a report, in a goal period and by
\* filterSessionsByDateRange if and only if its start timestamp t satisfies
\* intervalStart <= t <= intervalEnd; whatever its end, it adds its whole
\* duration to the total of that interval.
C28_CountedByStart ==
  [][Ran("getAnalytics")
       => \A list \in {allSessions} :
          \A all \in {Members(list)} :
          \A inside \in {{x \in all : /\ result'.startDate <= getTime(x.startTime)
                                      /\ getTime(x.startTime) <= result'.endDate}} :
            /\ \A x \in all : GroupsOf(result', x) # {} <=> x \in inside
            /\ result'.totalTime = SumOver([x \in inside |-> x.duration], inside)
            /\ \A t \in DOMAIN tasks :
                 getActualTimeForPeriod(t, op'.kind, op'.targetDate) =
                   SumOver([x \in inside |-> x.duration], {x \in inside : x.task = t})
            /\ \A x \in all, y \in all :
                 Members(filterSessionsByDateRange(list, getTime(x.startTime),
                                                   getTime(y.startTime)))
                   = {z \in all : /\ getTime(x.startTime) <= getTime(z.startTime)
                                  /\ getTime(z.startTime) <= getTime(y.startTime)}]_vars

\* The report of a day whose only session starts in the last hour of the
\* day and ends on the next day: the whole duration is in the total.
C28_Witness ==
  /\ op.name = "getAnalytics" /\ op.kind = "daily"
  /\ Len(result.tasks) = 1
  /\ \E x \in Members(result.tasks[1].sessions) :
       /\ getTime(x.startTime) = result.endDate
       /\ getTime(x.endTime) > result.endDate
       /\ result.totalTime = x.duration
       /\ x.duration > 1

\* The place in allSessions of the first session of the task that starts
\* inside the interval of the report.
FirstMet(report, task) ==
  CHOOSE i \in 1..Len(allSessions) :
    /\ allSessions[i].task = task
    /\ GroupsOf(report, allSessions[i]) # {}
    /\ \A j \in 1..(i - 1) :
         allSessions[j].task = task => GroupsOf(report, allSessions[j]) = {}

\* C29: in every period report each stored session that starts inside the
\* interval is in exactly one group, the one named after its task, and the
\* other sessions are in none; a group's totalTime is the sum of the
\* durations of its sessions; and the groups come by descending totalTime,
\* groups of equal totalTime in the order in which their tasks are met
\* first among the collected sessions.
C29_GroupsByTask ==
  [][Ran("getAnalytics")
       => \A groups \in {result'.tasks} :
            /\ \A x \in Members(allSessions) :
                 LET inside == /\ result'.startDate <= getTime(x.startTime)
                               /\ getTime(x.startTime) <= result'.endDate
                 IN /\ Cardinality(GroupsOf(result', x)) = IF inside THEN 1 ELSE 0
                    /\ \A i \in GroupsOf(result', x) : groups[i].name = x.task
            /\ \A i \in 1..Len(groups) :
                 /\ groups[i].sessions # <<>>
                 /\ Len(groups[i].sessions) = Cardinality(Members(groups[i].sessions))
                 /\ groups[i].totalTime =
                      SumOver([x \in Members(groups[i].sessions) |-> x.duration],
                              Members(groups[i].sessions))
            /\ \A i \in 1..Len(groups), j \in 1..Len(groups) :
                 i < j =>
                   /\ groups[i].name # groups[j].name
                   /\ groups[i].totalTime >= groups[j].totalTime
                   /\ groups[i].totalTime = groups[j].totalTime =>
                        FirstMet(result', groups[i].name) < FirstMet(result', groups[j].name)]_vars

\* A report with two groups of the same totalTime: the group of "b", whose
\* sessions are collected first, stands before the group of "a" although
\* the session of "a" is the earlier one.
C29_Witness ==
  /\ op.name = "getAnalytics"
  /\ Len(result.tasks) = 2
  /\ result.tasks[1].name = "b" /\ result.tasks[2].name = "a"
  /\ result.tasks[1].totalTime = result.tasks[2].totalTime
  /\ getTime(result.tasks[2].sessions[1].startTime)
       < getTime(result.tasks[1].sessions[1].startTime)

\* C30: getTaskSummary lists every stored task exactly once, with its
\* totalTime, the number of its sessions and its share of the sum of all
\* totalTime values in percent, rounded to the nearest integer (0 for every
\* task when that sum is 0); the list is in descending totalTime and
\* totalTimeAllTasks is that sum.
C30_TaskSummary ==
  [][Ran("getTaskSummary")
       => \A grandTotal \in {SumOver([t \in DOMAIN tasks |-> tasks[t].totalTime],
                                     DOMAIN tasks)} :
            /\ result'.totalTimeAllTasks = grandTotal
            /\ Len(result'.tasks) = Cardinality(DOMAIN tasks)
            /\ \A t \in DOMAIN tasks :
                 \E i \in 1..Len(result'.tasks) :
                   /\ result'.tasks[i].name = t
                   /\ result'.tasks[i].totalTime = tasks[t].totalTime
                   /\ result'.tasks[i].sessionCount = Len(tasks[t].sessions)
                   /\ IF grandTotal = 0 THEN result'.tasks[i].percentage = 0
                      ELSE /\ 2 * grandTotal * result'.tasks[i].percentage
                                <= 200 * tasks[t].totalTime + grandTotal
                           /\ 200 * tasks[t].totalTime + grandTotal
                                < 2 * grandTotal * (result'.tasks[i].percentage + 1)
            /\ \A i \in 1..(Len(result'.tasks) - 1) :
                 result'.tasks[i].totalTime >= result'.tasks[i + 1].totalTime]_vars

\* The summary of a store in which "a", created after "b", has 5 of the 8
\* hours tracked: "a" comes first with 63 percent (62.5 rounded), "b" has
\* 38 (37.5 rounded).
C30_Witness ==
  /\ op.name = "getTaskSummary"
  /\ result.totalTimeAllTasks = 8
  /\ result.tasks = <<[name |-> "a", totalTime |-> 5, percentage |-> 63,
                       sessionCount |-> 2],
                      [name |-> "b", totalTime |-> 3, percentage |-> 38,
                       sessionCount |-> 1]>>

\* The iterations of the loop of getGoalStreak whose period reaches the
\* goal stored for the task and period.
AchievedIterations(taskId, period) ==
  {i \in 0..(StreakPeriods - 1) :
     getActualTimeForPeriod(taskId, period, checkDate(period, now, i))
       >= loadGoals[taskId][period]}

\* The length of the longest run of consecutive members of A among
\* 0 .. StreakPeriods - 1: a run of every length up to it exists.
LongestRun(A) ==
  Cardinality({n \in 1..StreakPeriods :
                 \E s \in 0..(StreakPeriods - n) :
                   \A i \in s..(s + n - 1) : i \in A})

\* C31: for a task and period with a goal, getGoalStreak returns as
\* longestStreak the length of the longest run of consecutive achieved
\* instances among the 30 it examines and as totalAchieved the number of
\* achieved instances among them; with no goal set for the task and period
\* it returns 0 for currentStreak, longestStreak and totalAchieved.
C31_StreakTotals ==
  [][Ran("getGoalStreak")
       => IF /\ op'.taskId \in DOMAIN loadGoals
             /\ op'.period \in DOMAIN loadGoals[op'.taskId]
          THEN \A A \in {AchievedIterations(op'.taskId, op'.period)} :
                 /\ result'.success
                 /\ result'.streak.longestStreak = LongestRun(A)
                 /\ result'.streak.totalAchieved = Cardinality(A)
          ELSE /\ result'.success
               /\ result'.streak = [currentStreak |-> 0, longestStreak |-> 0,
                                    totalAchieved |-> 0]]_vars

\* The start of the day, week, month or year that lies k periods before
\* the current one.
PeriodBack(period, k) ==
  LET c == CivilFromDays(dayOf(now)) IN
  CASE period = "daily" -> startOfDay(now) - k * DayLength
    [] period = "weekly" -> startOfWeek(now) - k * 7 * DayLength
    [] period = "monthly" -> DateOf(c.year * 12 + c.month - 1 - k, 1)
    [] period = "yearly" -> DateOf((c.year - k) * 12, 1)

\* C32: for each of the four periods and every current date, the 30 dates
\* getGoalStreak checks lie in 30 distinct, consecutive periods: the date of
\* iteration i lies in the period i periods before today's, so no period
\* is skipped and none is evaluated twice.
C32_ConsecutivePeriods ==
  [][(Ran("getGoalStreak") /\ op'.period \in VALID_PERIODS)
       => \A i \in 0..(StreakPeriods - 1) :
            getTimeRangeForPeriod(op'.period, checkDate(op'.period, now, i)).start
              = PeriodBack(op'.period, i)]_vars

\* C33: a query called twice with nothing but the passing of time in
\* between (the operation recorded last is the same query) returns the
\* same result both times: listTasks, getTaskGoals for the same task, and
\* getStatus in Idle, Active and Paused.
C33_QueriesIdempotent ==
  [][(\/ Ran("listTasks") /\ op.name = "listTasks"
      \/ Ran("getTaskGoals") /\ op.name = "getTaskGoals" /\ op.taskId = op'.taskId
      \/ Ran("getStatus") /\ op.name = "getStatus")
       => result' = result]_vars

\* C33 as the code has it: listTasks, getTaskGoals for the same task, and
\* getStatus in Idle and Paused return the same result both times; in
\* Active the second status differs from the first in elapsedTime only,
\* which is the time of the call minus the start timestamp and is never
\* less than in the first.
C33_QueriesRepeat ==
  [][/\ (\/ Ran("listTasks") /\ op.name = "listTasks"
         \/ Ran("getTaskGoals") /\ op.name = "getTaskGoals" /\ op.taskId = op'.taskId
         \/ Ran("getStatus") /\ op.name = "getStatus" /\ ~IsActive(loadTracking))
          => result' = result
     /\ (Ran("getStatus") /\ op.name = "getStatus" /\ IsActive(loadTracking))
          => /\ result'.success = result.success
             /\ result'.status =
                  [result.status EXCEPT
                     !.elapsedTime = Max(0, now - getTime(loadTracking.startTime))]
             /\ result'.status.elapsedTime >= result.status.elapsedTime]_vars

\* getStatus has answered for an Active session an hour after its start,
\* with an elapsed time that an answer given at the start cannot have had.
C33_Witness ==
  /\ op.name = "getStatus"
  /\ IsActive(tracking)
  /\ now > getTime(tracking.startTime)
  /\ result.status.isTracking
  /\ result.status.elapsedTime = now - getTime(tracking.startTime)

\* C34: every goal entry belongs to a task that is in the store; a
\* successful deleteTask leaves neither a record nor a goal entry for the
\* task, and a successful createTask, after a deleteTask of the same name
\* as after anything else, yields a task without goals, without sessions
\* and with totalTime 0.
C34_NoOrphans ==
  [][/\ DOMAIN loadGoals' \subseteq DOMAIN loadTasks'
     /\ \A n \in NameInputs \cup TaskIdInputs :
          /\ (Ran("deleteTask") /\ op'.taskId = n /\ result'.success)
               => (n \notin DOMAIN loadTasks' /\ n \notin DOMAIN loadGoals')
          /\ (Ran("createTask") /\ op'.taskId = n /\ result'.success)
               => /\ getTaskGoals(n)' = <<>>
                  /\ n \in DOMAIN loadTasks'
                  /\ loadTasks'[n].sessions = <<>>
                  /\ loadTasks'[n].totalTime = 0]_vars

\* Task "a" was created again after its deletion: the session being
\* tracked for "a" started before the record that is now stored was
\* created, and that record has no goals, no sessions and totalTime 0.
C34_Witness ==
  /\ op = [name |-> "createTask", taskId |-> "a"]
  /\ result.success
  /\ tracking.currentTask = Some("a")
  /\ getTime(tracking.startTime) < getTime(tasks["a"].created)
  /\ getTaskGoals("a") = <<>>
  /\ tasks["a"].sessions = <<>>
  /\ tasks["a"].totalTime = 0

\* C35: no stored state has the session of the task being tracked appended
\* to the task record while the tracking record still names that task, not
\* even after a stop that was interrupted between its two writes.
C35_StopAtomic ==
  ~(/\ op.name = "stopTrackingInterrupted"
    /\ Truthy(loadTracking.currentTask)
    /\ \E t \in DOMAIN loadTasks :
         /\ loadTracking.currentTask = Some(t)
         /\ Len(loadTasks[t].sessions) > 0
         /\ LastSession(loadTasks[t]).startTime = loadTracking.startTime)

\* C36: the session a successful stop returns, and stores when the task
\* is in the store, ends at the time of the stop and starts at the time
\* start was called plus the completed pause intervals; its start is
\* neither earlier than the call of start nor later than its end, and
\* after a stop in Active its duration is end - start.
C36_SessionInterval ==
  [][(Ran("stopTracking") /\ result'.success) =>
       LET session == result'.session
           t == tracking.currentTask[1]
       IN /\ session.endTime = now
          /\ session.startTime = hist.start + hist.paused
          /\ hist.start <= session.startTime
          /\ session.startTime <= session.endTime
          /\ IsActive(tracking) => session.duration = session.endTime - session.startTime
          /\ t \in DOMAIN tasks =>
               LastSession(tasks'[t]) = [task |-> t,
                                         startTime |-> toISOString(session.startTime),
                                         endTime |-> toISOString(session.endTime),
                                         duration |-> session.duration]]_vars

\* A stop in Active after a completed pause: the stored session starts
\* later than start was called, by the length of the pause, and lasts from
\* that start to the stop.
C36_Witness ==
  /\ op.name = "stopTracking" /\ op.from = "Active" /\ result.success
  /\ hist.paused > 0
  /\ result.session.startTime = hist.start + hist.paused
  /\ result.session.endTime = now
  /\ result.session.duration = now - result.session.startTime
  /\ result.session.duration > 0
  /\ result.session.task \in DOMAIN tasks
  /\ getTime(LastSession(tasks[result.session.task]).startTime) = result.session.startTime

\* C37: createTask, setGoal and removeGoal leave the tracking record as it
\* was, in Idle, Active and Paused; setGoal and removeGoal leave the set of
\* tasks, every task's sessions, totalTime and creation timestamp, and the
\* goals of every task other than the one they are called for, as they
\* were.
C37_GoalOpsFrame ==
  [][/\ (Ran("createTask") \/ Ran("setGoal") \/ Ran("removeGoal"))
          => tracking' = tracking
     /\ (Ran("setGoal") \/ Ran("removeGoal"))
          => /\ DOMAIN tasks' = DOMAIN tasks
             /\ taskKeys' = taskKeys
             /\ \A t \in DOMAIN tasks :
                  /\ tasks'[t].sessions = tasks[t].sessions
                  /\ tasks'[t].totalTime = tasks[t].totalTime
                  /\ tasks'[t].created = tasks[t].created
                  /\ t # op'.taskId => tasks'[t].goals = tasks[t].goals]_vars

\* setGoal has succeeded for "b" while "a", which has a session and a
\* goal of its own, is being tracked and paused.
C37_Witness ==
  /\ op.name = "setGoal" /\ op.taskId = "b" /\ result.success
  /\ IsPaused(tracking)
  /\ tracking.currentTask = Some("a")
  /\ "a" \in DOMAIN loadGoals
  /\ loadGoals["b"][op.period] = op.duration
  /\ Len(tasks["a"].sessions) = 1
  /\ tasks["a"].totalTime = 1

\* C38: the start command called with a valid task name while a task is
\* being tracked reports the conflict with the task being tracked and
\* changes neither the tracking record nor the task store: the task it
\* names is not created.
C38_StartCommandNoEffect ==
  [][(/\ Ran("start command")
      /\ isValidTaskName(op'.taskId)
      /\ Truthy(tracking.currentTask))
       => /\ ~result'.success
          /\ result'.error = <<"AlreadyTracking", tracking.currentTask>>
          /\ tracking' = tracking
          /\ tasks' = tasks
          /\ taskKeys' = taskKeys]_vars

\* C39: with a clock that never goes back, every task's session list is in
\* the order of completion, each session ending no later than the next one
\* starts, and no two sessions of the store, of one task or of two,
\* overlap: one of them ends no later than the other starts.
C39_SessionsInOrder ==
  /\ \A t \in DOMAIN loadTasks :
       \A i, j \in 1..Len(loadTasks[t].sessions) :
         i < j => /\ getTime(loadTasks[t].sessions[i].endTime)
                       <= getTime(loadTasks[t].sessions[j].endTime)
                  /\ getTime(loadTasks[t].sessions[i].endTime)
                       <= getTime(loadTasks[t].sessions[j].startTime)
  /\ \A t, u \in DOMAIN loadTasks :
       \A i \in 1..Len(loadTasks[t].sessions), j \in 1..Len(loadTasks[u].sessions) :
         t # u => \/ getTime(loadTasks[t].sessions[i].endTime)
                       <= getTime(loadTasks[u].sessions[j].startTime)
                  \/ getTime(loadTasks[u].sessions[j].endTime)
                       <= getTime(loadTasks[t].sessions[i].startTime)

\* "a" and "b" each have a session that took time, and the session of "b"
\* starts when that of "a" ends.
C39_Witness ==
  /\ {"a", "b"} \subseteq DOMAIN tasks
  /\ Len(tasks["a"].sessions) = 1 /\ Len(tasks["b"].sessions) = 1
  /\ tasks["a"].sessions[1].duration > 0
  /\ tasks["b"].sessions[1].duration > 0
  /\ tasks["a"].sessions[1].endTime = tasks["b"].sessions[1].startTime

\* C40: for every stored task, the actual time getGoalProgress uses for a
\* period and reference date is the totalTime of the task's group in the
\* analytics report of the same period and date, and 0 when the report has
\* no group for the task; every stored session names the task whose list
\* holds it.
C40_EnginesAgree ==
  [][Ran("getAnalytics") =>
       \A t \in DOMAIN loadTasks :
         /\ \A i \in 1..Len(loadTasks[t].sessions) : loadTasks[t].sessions[i].task = t
         /\ \A actualTime \in {getActualTimeForPeriod(t, op'.kind, op'.targetDate)} :
              IF \E i \in 1..Len(result'.tasks) : result'.tasks[i].name = t
              THEN \A i \in 1..Len(result'.tasks) :
                     result'.tasks[i].name = t => result'.tasks[i].totalTime = actualTime
              ELSE actualTime = 0]_vars

\* A weekly report with a group for "a" whose total is the actual time of
\* "a" for that week and less than all the time of "a", and without a
\* group for "b", whose sessions all lie outside the week.
C40_Witness ==
  /\ op.name = "getAnalytics" /\ op.kind = "weekly"
  /\ Len(result.tasks) = 1
  /\ result.tasks[1].name = "a"
  /\ result.tasks[1].totalTime = getActualTimeForPeriod("a", "weekly", op.targetDate)
  /\ result.tasks[1].totalTime > 0
  /\ result.tasks[1].totalTime < tasks["a"].totalTime
  /\ tasks["b"].totalTime > 0
  /\ getActualTimeForPeriod("b", "weekly", op.targetDate) = 0

====
